---- MODULE Spec2Model ----
(***************************************************************************)
(* Admission-controlled sandbox lifecycle orchestrator of do-sandbox-demo: *)
(* the RateLimiter (backend/services/rate_limiter.py), the SandboxService  *)
(* (backend/services/cold_service.py) and the cleanup task of              *)
(* backend/main.py.                                                        *)
(*                                                                         *)
(* Scheduling.  Everything runs on one asyncio event loop.  A coroutine    *)
(* keeps the loop until it awaits something that is not ready: the pool    *)
(* acquisition, asyncio.sleep, an empty queue.  Awaiting the RateLimiter's *)
(* asyncio.Lock does not suspend when the lock is free, and putting on an  *)
(* unbounded asyncio.Queue never suspends.  Sandbox.create, sandbox.exec,  *)
(* exec_background and time.sleep are synchronous calls made on the loop's *)
(* thread: while one of them runs the clock advances and no other          *)
(* coroutine runs.  The variable cur names the coroutine that holds the    *)
(* loop (Idle when the loop is free to pick any runnable coroutine).       *)
(*                                                                         *)
(* Time.  One tick of the clock now is one sweep interval                  *)
(* (CLEANUP_INTERVAL_SECONDS).                                             *)
(***************************************************************************)
EXTENDS Integers, Sequences, FiniteSets, TLC

\* ------------------------------------------------------------ bounds
MaxRuns == 2          \* run ids handed out by launch
NumLaunchers == 2     \* launch requests that can be in flight
LeadTicks == 1        \* the process starts this many ticks before an hour boundary
MaxElapsed == 4       \* ticks of clock modelled after the start
StreamRuns == 1       \* run ids handed out where subscriptions are followed
NumSubscribers == 1   \* subscriptions that can be open
MaxKeepalives == 1    \* keepalives one subscription is followed through
FanOut == 2           \* subscriptions that can be open on one run at once
HistoryRuns == 22     \* run ids handed out where the deleted history is followed
GcRuns == 3           \* run ids handed out where the clock is followed over hours
GcHours == 4          \* hours of clock modelled where it is followed over hours
TypeRuns == 3         \* launches followed over the three sandbox types
WriterRuns == 2       \* run ids handed out where every holder of a runtime is followed

\* ------------------------------------------------- program constants
CLEANUP_INTERVAL_SECONDS == 30
SECONDS_PER_HOUR == 3600
SECONDS_PER_MINUTE == 60
DNS_PROPAGATION_DELAY == 15
EXEC_RETRY_ATTEMPTS == 5
EXEC_RETRY_DELAY == 5
MAX_DELETED_SANDBOXES == 20
GC_HOURS == 2
MILLIS_PER_SECOND == 1000

TicksPerHour == SECONDS_PER_HOUR \div CLEANUP_INTERVAL_SECONDS
TicksPerMinute == SECONDS_PER_MINUTE \div CLEANUP_INTERVAL_SECONDS
TickMillis == CLEANUP_INTERVAL_SECONDS * MILLIS_PER_SECOND
StartTick == TicksPerHour - LeadTicks
LastTick == StartTick + MaxElapsed

\* --------------------------------------------------------- values
\* Optional[T]: None is the empty tuple, a present value v is <<v>>.
None == <<>>
Some(v) == <<v>>
\* Python truthiness of an Optional[int]: None and 0 are falsy.
Truthy(o) == o # None /\ o[1] # 0
\* Python's "a or b or 0" over Optional[int] values, giving an int.
OrZero(o) == IF Truthy(o) THEN o[1] ELSE 0
OrElse(a, b) == IF Truthy(a) THEN a[1] ELSE b

Min(a, b) == IF a <= b THEN a ELSE b
Take(s, n) == SubSeq(s, 1, Min(n, Len(s)))

SandboxTypes == {"cold", "warm"}
Games == {"snake"}
Launchers == 1..NumLaunchers
Subscribers == 1..NumSubscribers
\* Every subscription there can be: those of the specifications that follow
\* one stream at a time, and those that follow several streams of one run.
SubIds == 1..(IF FanOut > NumSubscribers THEN FanOut ELSE NumSubscribers)

\* The configurations the process can be started with (environment variables
\* read once by backend/config.py).
Configs ==
  { [cold |-> 1, warm |-> 1, total |-> 2, hourly |-> 2,
     minLife |-> 1, maxLife |-> 2, spaces |-> TRUE, pool |-> TRUE],
    [cold |-> 2, warm |-> 2, total |-> 1, hourly |-> 1,
     minLife |-> 1, maxLife |-> 1, spaces |-> FALSE, pool |-> FALSE] }

\* URLs: the orchestrator's proxy path of a run, and the sandbox's own base URL.
ProxyUrl(r) == <<"/api/game", r>>
BaseUrl(r) == <<"https://sandbox", r>>
NoUrl == <<"", 0>>

\* ---------------------------------------------------------- events
LogEvent(m) ==
  [type |-> "log", message |-> m, status |-> "", ingress_url |-> NoUrl,
   bootstrap_ms |-> 0, restore_ms |-> None, total_ms |-> 0]
StatusEvent(s) ==
  [type |-> "status", message |-> "", status |-> s, ingress_url |-> NoUrl,
   bootstrap_ms |-> 0, restore_ms |-> None, total_ms |-> 0]
ReadyEvent(u, b, rs, t) ==
  [type |-> "ready", message |-> "", status |-> "", ingress_url |-> u,
   bootstrap_ms |-> b, restore_ms |-> rs, total_ms |-> t]
\* The dict {"type": "keepalive"} stream_events yields on a timeout.
KeepAlive ==
  [type |-> "keepalive", message |-> "", status |-> "", ingress_url |-> NoUrl,
   bootstrap_ms |-> 0, restore_ms |-> None, total_ms |-> 0]

RECURSIVE LogMessages(_)
\* The messages of the log events among evs, in order.
LogMessages(evs) ==
  IF evs = <<>> THEN <<>>
  ELSE (IF Head(evs).type = "log" THEN <<Head(evs).message>> ELSE <<>>)
       \o LogMessages(Tail(evs))

\* ------------------------------------------------------ RateLimiter
\* _get_hour_key: strftime("%Y-%m-%d-%H") of the clock.  The keys are
\* fixed-width and zero-padded, so their string order is the order of the
\* hours; the key is modelled by the index of the hour.
HourKey(t) == t \div TicksPerHour

\* _get_seconds_until_reset read at the instant ms milliseconds into tick t:
\* the time left to the next full hour, cut to whole seconds by int().
SecondsUntilReset(t, ms) ==
  LET into == (t % TicksPerHour) * TickMillis + ms
  IN  (SECONDS_PER_HOUR * MILLIS_PER_SECOND - into) \div MILLIS_PER_SECOND

\* dict.get(key, 0)
Count(h, k) == IF k \in DOMAIN h THEN h[k] ELSE 0

NewLimiter ==
  [active_cold |-> {}, active_warm |-> {}, active_snapshot |-> {},
   hourly_counts |-> [k \in {} |-> 0]]

TotalActive(lim) ==
  Cardinality(lim.active_cold) + Cardinality(lim.active_warm)
    + Cardinality(lim.active_snapshot)

Accept == [ok |-> TRUE, limit |-> "none", n |-> 0, cap |-> 0]
Reject(which, n, cap) == [ok |-> FALSE, limit |-> which, n |-> n, cap |-> cap]

\* can_launch with every comparison strict: a limit is reported only once
\* it is already exceeded.
CanLaunchStrict(lim, type, t, c) ==
  LET hourly_count == Count(lim.hourly_counts, HourKey(t))
      total_active == TotalActive(lim)
  IN  IF hourly_count > c.hourly
        THEN Reject("hourly", hourly_count, c.hourly)
      ELSE IF total_active > c.total
        THEN Reject("total", total_active, c.total)
      ELSE IF type = "cold" /\ Cardinality(lim.active_cold) > c.cold
        THEN Reject("cold", Cardinality(lim.active_cold), c.cold)
      ELSE IF type = "warm" /\ Cardinality(lim.active_warm) > c.warm
        THEN Reject("warm", Cardinality(lim.active_warm), c.warm)
      ELSE IF type = "snapshot" /\ Cardinality(lim.active_snapshot) > c.warm
        THEN Reject("snapshot", Cardinality(lim.active_snapshot), c.warm)
      ELSE Accept

\* can_launch checking the total before the hourly quota.
CanLaunchTotalFirst(lim, type, t, c) ==
  LET hourly_count == Count(lim.hourly_counts, HourKey(t))
      total_active == TotalActive(lim)
  IN  IF total_active >= c.total
        THEN Reject("total", total_active, c.total)
      ELSE IF hourly_count >= c.hourly
        THEN Reject("hourly", hourly_count, c.hourly)
      ELSE IF type = "cold" /\ Cardinality(lim.active_cold) >= c.cold
        THEN Reject("cold", Cardinality(lim.active_cold), c.cold)
      ELSE IF type = "warm" /\ Cardinality(lim.active_warm) >= c.warm
        THEN Reject("warm", Cardinality(lim.active_warm), c.warm)
      ELSE IF type = "snapshot" /\ Cardinality(lim.active_snapshot) >= c.warm
        THEN Reject("snapshot", Cardinality(lim.active_snapshot), c.warm)
      ELSE Accept

\* can_launch(sandbox_type) evaluated at clock t under configuration c:
\* the returned (bool, message); the message is kept as the limit it names
\* and the two counts it prints.
CanLaunch(lim, type, t, c) ==
  LET hourly_count == Count(lim.hourly_counts, HourKey(t))
      total_active == TotalActive(lim)
  IN  IF hourly_count >= c.hourly
        THEN Reject("hourly", hourly_count, c.hourly)
      ELSE IF total_active >= c.total
        THEN Reject("total", total_active, c.total)
      ELSE IF type = "cold" /\ Cardinality(lim.active_cold) >= c.cold
        THEN Reject("cold", Cardinality(lim.active_cold), c.cold)
      ELSE IF type = "warm" /\ Cardinality(lim.active_warm) >= c.warm
        THEN Reject("warm", Cardinality(lim.active_warm), c.warm)
      ELSE IF type = "snapshot" /\ Cardinality(lim.active_snapshot) >= c.warm
        THEN Reject("snapshot", Cardinality(lim.active_snapshot), c.warm)
      ELSE Accept

\* register_launch adding the id to the cold and to the warm set.
RegisterLaunchEverySet(lim, id, type, t) ==
  [lim EXCEPT !.active_cold = @ \cup {id},
              !.active_warm = @ \cup {id},
              !.hourly_counts =
                 [x \in DOMAIN @ \cup {HourKey(t)} |->
                    IF x = HourKey(t) THEN Count(@, x) + 1 ELSE @[x]]]

\* register_launch keeping only the counters of the current hour and of the
\* hour before it.
RegisterLaunchKeepsOneHour(lim, id, type, t) ==
  LET k == HourKey(t)
      counted == [x \in DOMAIN lim.hourly_counts \cup {k} |->
                    IF x = k THEN Count(lim.hourly_counts, k) + 1
                    ELSE lim.hourly_counts[x]]
      kept == {x \in DOMAIN counted : x >= HourKey(t - TicksPerHour)}
  IN  [active_cold |-> IF type = "cold" THEN lim.active_cold \cup {id}
                       ELSE lim.active_cold,
       active_warm |-> IF type = "warm" THEN lim.active_warm \cup {id}
                       ELSE lim.active_warm,
       active_snapshot |-> IF type = "snapshot" THEN lim.active_snapshot \cup {id}
                           ELSE lim.active_snapshot,
       hourly_counts |-> [x \in kept |-> counted[x]]]

\* register_launch(run_id, sandbox_type) at clock t.
RegisterLaunch(lim, id, type, t) ==
  LET k == HourKey(t)
      counted == [x \in DOMAIN lim.hourly_counts \cup {k} |->
                    IF x = k THEN Count(lim.hourly_counts, k) + 1
                    ELSE lim.hourly_counts[x]]
      kept == {x \in DOMAIN counted : x >= HourKey(t - GC_HOURS * TicksPerHour)}
  IN  [active_cold |-> IF type = "cold" THEN lim.active_cold \cup {id}
                       ELSE lim.active_cold,
       active_warm |-> IF type = "warm" THEN lim.active_warm \cup {id}
                       ELSE lim.active_warm,
       active_snapshot |-> IF type = "snapshot" THEN lim.active_snapshot \cup {id}
                           ELSE lim.active_snapshot,
       hourly_counts |-> [x \in kept |-> counted[x]]]

\* unregister_sandbox discarding the id from the cold set only.
UnregisterColdOnly(lim, id) == [lim EXCEPT !.active_cold = @ \ {id}]

\* unregister_sandbox giving the launch back to the hourly quota.
UnregisterRefunds(lim, id) ==
  [lim EXCEPT !.active_cold = @ \ {id},
              !.active_warm = @ \ {id},
              !.active_snapshot = @ \ {id},
              !.hourly_counts =
                 [k \in DOMAIN @ |-> IF @[k] > 0 THEN @[k] - 1 ELSE 0]]

\* unregister_sandbox(run_id)
UnregisterSandbox(lim, id) ==
  [lim EXCEPT !.active_cold = @ \ {id},
              !.active_warm = @ \ {id},
              !.active_snapshot = @ \ {id}]

\* A lock whose acquire always gives the loop up.
LockAlwaysSuspends(holder) == TRUE

\* asyncio.Lock.acquire: the caller is suspended only when the lock is held.
LockAcquireSuspends(holder) == holder # 0

\* A type_str that is "cold" for every launch.
TypeStrCold(sandbox_type) == "cold"

\* A type_str that is the sandbox type itself, so that a snapshot launch is
\* checked and registered under the limiter's snapshot category.
TypeStrOwn(sandbox_type) == sandbox_type

\* launch(): type_str = "cold" if sandbox_type == SandboxType.COLD else "warm"
TypeStr(sandbox_type) == IF sandbox_type = "cold" THEN "cold" ELSE "warm"


\* ------------------------------------------------------------ state
VARIABLES
  cfg,        \* the configuration read at start (config.py)
  now,        \* datetime.utcnow(), in ticks
  cur,        \* the coroutine holding the event loop
  lock,       \* RateLimiter._lock: 0 when free, else the launcher holding it
  lpc,        \* per launch request: its position in SandboxService.launch
  ltype,      \* per launch request: the sandbox_type it was called with
  resp,       \* the result a request handler is about to answer with
  answers,    \* the answers given so far, where a transcript is kept
  limiter,    \* the RateLimiter's sets and hourly counters
  rt,         \* the SandboxRuntime objects, by run id (kept after deletion)
  active,     \* keys of SandboxService._active_sandboxes
  queues,     \* keys of SandboxService._event_queues
  qbuf,       \* contents of each run's asyncio.Queue object
  deleted,    \* SandboxService._deleted_sandboxes
  tpc,        \* per run: position of its _create_sandbox task
  tq,         \* per run: whether its task found a queue at its start
  resource,   \* per run: the backend resource handed to its task
  sleepLeft,  \* ticks left of cleanup_task's sleep
  subs,       \* per subscription: the position of its stream_events generator
  call,       \* the exec_with_retry call followed attempt by attempt
  audit       \* per run: calls counted for the deletion claims

vars == <<cfg, now, cur, lock, lpc, ltype, resp, answers, limiter, rt, active,
          queues, qbuf, deleted, tpc, tq, resource, sleepLeft, subs, call,
          audit>>

Idle == <<"idle", 0>>
NoResp == [kind |-> "none", ok |-> FALSE, run |-> 0,
           limit |-> "none", n |-> 0, cap |-> 0, reset_in |-> None]

RunIds == 1..Len(rt)

\* A runtime constructed as already running, with an expiry.
NewRuntimeRunning(sandbox_type, game, use_snapshot) ==
  [sandbox_type |-> sandbox_type, game |-> game, use_snapshot |-> use_snapshot,
   sandbox |-> None, status |-> "running", app_id |-> None,
   ingress_url |-> None, bootstrap_ms |-> None, restore_ms |-> None,
   total_ms |-> None, expires_at |-> Some(0), logs |-> <<>>,
   service_token |-> None, sandbox_base_url |-> None]

\* SandboxRuntime.__init__ (created_at, read only for the duration shown to
\* callers, is left out).
NewRuntime(sandbox_type, game, use_snapshot) ==
  [sandbox_type |-> sandbox_type, game |-> game, use_snapshot |-> use_snapshot,
   sandbox |-> None, status |-> "creating", app_id |-> None,
   ingress_url |-> None, bootstrap_ms |-> None, restore_ms |-> None,
   total_ms |-> None, expires_at |-> None, logs |-> <<>>,
   service_token |-> None, sandbox_base_url |-> None]

NewAudit == [delTrue |-> 0, histIns |-> 0, backendDel |-> 0, unreg |-> 0]

\* A subscription that is not open.  Of an open one: the run, whether
\* stream_events found the runtime, the index of the next log to replay, the
\* keepalives yielded, the events yielded (each with where it came from) and,
\* for the replay claims, the run's logs and readiness when it was opened.
NoSub ==
  [pc |-> "closed", run |-> 0, runtime |-> FALSE, i |-> 0, keepalives |-> 0,
   got |-> <<>>, atOpen |-> <<>>, readyAtOpen |-> FALSE]

\* No exec_with_retry call is followed.
NoCall ==
  [pc |-> "none", max_retries |-> 0, attempt |-> 0, tried |-> <<>>,
   slept |-> 0, result |-> "none"]

\* The state after construction, with k the exec_with_retry call followed.
InitState(c, k) ==
  /\ cfg = c
  /\ call = k
  /\ now = StartTick
  /\ cur = Idle
  /\ lock = 0
  /\ lpc = [l \in Launchers |-> "idle"]
  /\ ltype = [l \in Launchers |-> "cold"]
  /\ resp = NoResp
  /\ answers = <<>>
  /\ limiter = NewLimiter
  /\ rt = <<>>
  /\ active = {}
  /\ queues = {}
  /\ qbuf = <<>>
  /\ deleted = <<>>
  /\ tpc = <<>>
  /\ tq = <<>>
  /\ resource = <<>>
  /\ sleepLeft = 0
  /\ subs = [s \in SubIds |-> NoSub]
  /\ audit = <<>>

InitWith(c) == InitState(c, NoCall)

Init == \E c \in Configs : InitWith(c)

\* ------------------------------------------------------- delete()
\* The bookkeeping SandboxService.delete works on.
Svc ==
  [active |-> active, queues |-> queues, deleted |-> deleted,
   limiter |-> limiter, resource |-> resource, audit |-> audit]

SetSvc(s) ==
  /\ active' = s.active
  /\ queues' = s.queues
  /\ deleted' = s.deleted
  /\ limiter' = s.limiter
  /\ resource' = s.resource
  /\ audit' = s.audit

\* delete() without its early return.
DeleteReturnsAlways(s, r) == TRUE

\* delete() returns False for a run that is not in _active_sandboxes.
DeleteReturns(s, r) == r \in s.active

\* delete() letting the error of runtime.sandbox.delete() through: the
\* history entry is written, the rest of the bookkeeping is not reached.
DeleteRunRaises(s, rts, r, reason, t, backendOk) ==
  IF ~DeleteReturns(s, r) THEN s
  ELSE
    LET runtime == rts[r]
        deleted_info ==
          [run_id |-> r, type |-> runtime.sandbox_type, game |-> runtime.game,
           status |-> "deleted", bootstrap_ms |-> runtime.bootstrap_ms,
           reason |-> reason]
        called == runtime.sandbox # None
        raised == called /\ ~backendOk
    IN  [active |-> IF raised THEN s.active ELSE s.active \ {r},
         queues |-> IF raised THEN s.queues ELSE s.queues \ {r},
         deleted |-> Take(<<deleted_info>> \o s.deleted, MAX_DELETED_SANDBOXES),
         limiter |-> IF raised THEN s.limiter
                     ELSE UnregisterSandbox(s.limiter, r),
         resource |-> IF called /\ backendOk
                      THEN [s.resource EXCEPT ![r] = "released"]
                      ELSE s.resource,
         audit |-> [s.audit EXCEPT
                      ![r].delTrue = @ + (IF raised THEN 0 ELSE 1),
                      ![r].histIns = @ + 1,
                      ![r].backendDel = @ + (IF called THEN 1 ELSE 0),
                      ![r].unreg = @ + (IF raised THEN 0 ELSE 1)]]

\* delete() inserting the history entry without cutting the list.
DeleteRunKeepsAll(s, rts, r, reason, t, backendOk) ==
  IF ~DeleteReturns(s, r) THEN s
  ELSE
    LET runtime == rts[r]
        deleted_info ==
          [run_id |-> r, type |-> runtime.sandbox_type, game |-> runtime.game,
           status |-> "deleted", bootstrap_ms |-> runtime.bootstrap_ms,
           reason |-> reason]
        called == runtime.sandbox # None
    IN  [active |-> s.active \ {r},
         queues |-> s.queues \ {r},
         deleted |-> <<deleted_info>> \o s.deleted,
         limiter |-> UnregisterSandbox(s.limiter, r),
         resource |-> IF called /\ backendOk
                      THEN [s.resource EXCEPT ![r] = "released"]
                      ELSE s.resource,
         audit |-> [s.audit EXCEPT
                      ![r].delTrue = @ + 1,
                      ![r].histIns = @ + 1,
                      ![r].backendDel = @ + (IF called THEN 1 ELSE 0),
                      ![r].unreg = @ + 1]]

\* delete(run_id, reason) at clock t on bookkeeping s, the runtime objects
\* being rts; backendOk tells whether runtime.sandbox.delete() returned or
\* raised (the error is logged and swallowed).
DeleteRun(s, rts, r, reason, t, backendOk) ==
  IF ~DeleteReturns(s, r) THEN s
  ELSE
    LET runtime == rts[r]
        deleted_info ==
          [run_id |-> r, type |-> runtime.sandbox_type, game |-> runtime.game,
           status |-> "deleted", bootstrap_ms |-> runtime.bootstrap_ms,
           reason |-> reason]
        called == runtime.sandbox # None
    IN  [active |-> s.active \ {r},
         queues |-> s.queues \ {r},
         deleted |-> Take(<<deleted_info>> \o s.deleted, MAX_DELETED_SANDBOXES),
         limiter |-> UnregisterSandbox(s.limiter, r),
         resource |-> IF called /\ backendOk
                      THEN [s.resource EXCEPT ![r] = "released"]
                      ELSE s.resource,
         audit |-> [s.audit EXCEPT
                      ![r].delTrue = @ + 1,
                      ![r].histIns = @ + 1,
                      ![r].backendDel = @ + (IF called THEN 1 ELSE 0),
                      ![r].unreg = @ + 1]]

\* get_deleted_sandboxes(limit): the slice _deleted_sandboxes[:limit]; a
\* negative limit counts from the end of the list.
GetDeletedSandboxes(d, limit) ==
  IF limit >= 0 THEN SubSeq(d, 1, Min(limit, Len(d)))
  ELSE SubSeq(d, 1, IF Len(d) + limit > 0 THEN Len(d) + limit ELSE 0)

\* A runtime object and its queue are unreachable once the run is out of
\* _active_sandboxes, its task has ended and no subscription is open on it:
\* what is kept of them is the status the run ended with.
Unreachable(r, act, tpcs, ss) ==
  /\ r \notin act
  /\ tpcs[r] = "done"
  /\ \A s \in SubIds : ss[s].pc = "closed" \/ ss[s].run # r

Collected(rts, act, tpcs, ss) ==
  [r \in DOMAIN rts |->
     IF Unreachable(r, act, tpcs, ss)
     THEN [NewRuntime(rts[r].sandbox_type, rts[r].game, rts[r].use_snapshot)
             EXCEPT !.status = rts[r].status]
     ELSE rts[r]]

CollectedQueues(qs, act, tpcs, ss) ==
  [r \in DOMAIN qs |-> IF Unreachable(r, act, tpcs, ss) THEN <<>> ELSE qs[r]]

\* --------------------------------------------------------- launch()
\* launch() counting every attempt, rejected ones too, in the hour's counter.
LaunchCountsAttempts(l, sandbox_type, maxRuns, ms) ==
  /\ cur = Idle
  /\ lpc[l] = "idle"
  /\ lock = 0
  /\ LET res == CanLaunch(limiter, TypeStr(sandbox_type), now, cfg)
     IN  /\ Len(rt) < maxRuns \/ ~res.ok
         /\ IF res.ok
            THEN /\ lpc' = [lpc EXCEPT ![l] = "register"]
                 /\ resp' = resp
                 /\ limiter' = limiter
                 /\ cur' = IF LockAcquireSuspends(lock) THEN Idle
                           ELSE <<"launch", l>>
            ELSE /\ lpc' = [lpc EXCEPT ![l] = "respond"]
                 /\ resp' = [kind |-> "launch", ok |-> FALSE, run |-> 0,
                             limit |-> res.limit, n |-> res.n, cap |-> res.cap,
                             reset_in |-> IF res.limit = "hourly"
                                          THEN Some(SecondsUntilReset(now, ms))
                                          ELSE None]
                 /\ cur' = <<"launch", l>>
                 /\ limiter' =
                      [limiter EXCEPT !.hourly_counts =
                         [x \in DOMAIN @ \cup {HourKey(now)} |->
                            IF x = HourKey(now) THEN Count(@, x) + 1
                            ELSE @[x]]]
  /\ ltype' = [ltype EXCEPT ![l] = sandbox_type]
  /\ UNCHANGED <<cfg, call, answers, subs, now, lock, rt, active, queues, qbuf,
                 deleted, tpc, tq, resource, sleepLeft, audit>>

\* launch() up to its await of register_launch: can_launch takes the lock,
\* evaluates the checks and releases the lock; a rejection raises
\* RateLimitError; an accepted launch keeps the loop unless the lock of
\* register_launch makes it wait.  At most maxRuns launches are accepted: once that many run
\* ids are handed out only launches that will be rejected are made.  The call
\* is made ms milliseconds into the current tick; the message of an hourly
\* rejection carries the seconds until the reset read at that instant.
LaunchCanLaunchAt(l, sandbox_type, maxRuns, ms) ==
  /\ cur = Idle
  /\ lpc[l] = "idle"
  /\ lock = 0
  /\ LET res == CanLaunch(limiter, TypeStr(sandbox_type), now, cfg)
     IN  /\ Len(rt) < maxRuns \/ ~res.ok
         /\ IF res.ok
            THEN /\ lpc' = [lpc EXCEPT ![l] = "register"]
                 /\ resp' = resp
                 /\ cur' = IF LockAcquireSuspends(lock) THEN Idle
                           ELSE <<"launch", l>>
            ELSE /\ lpc' = [lpc EXCEPT ![l] = "respond"]
                 /\ resp' = [kind |-> "launch", ok |-> FALSE, run |-> 0,
                             limit |-> res.limit, n |-> res.n, cap |-> res.cap,
                             reset_in |-> IF res.limit = "hourly"
                                          THEN Some(SecondsUntilReset(now, ms))
                                          ELSE None]
                 /\ cur' = <<"launch", l>>
  /\ ltype' = [ltype EXCEPT ![l] = sandbox_type]
  /\ UNCHANGED <<cfg, call, answers, subs, now, lock, limiter, rt, active, queues, qbuf,
                 deleted, tpc, tq, resource, sleepLeft, audit>>

\* A launch made at the start of the current tick.
LaunchCanLaunch(l, sandbox_type, maxRuns) ==
  LaunchCanLaunchAt(l, sandbox_type, maxRuns, 0)

\* launch() from the run id to its return: the runtime and the queue are
\* stored, register_launch runs under the lock, the task is created.
LaunchRegister(l, game, use_snapshot, maxRuns) ==
  /\ cur = IF LockAcquireSuspends(lock) THEN Idle ELSE <<"launch", l>>
  /\ lpc[l] = "register"
  /\ Len(rt) < maxRuns
  /\ LET run_id == Len(rt) + 1
     IN  /\ rt' = Append(rt, NewRuntime(ltype[l], game, use_snapshot))
         /\ active' = active \cup {run_id}
         /\ queues' = queues \cup {run_id}
         /\ qbuf' = Append(qbuf, <<>>)
         /\ limiter' = RegisterLaunch(limiter, run_id, TypeStr(ltype[l]), now)
         /\ tpc' = Append(tpc, "start")
         /\ tq' = Append(tq, FALSE)
         /\ resource' = Append(resource, "none")
         /\ audit' = Append(audit, NewAudit)
         /\ resp' = [kind |-> "launch", ok |-> TRUE, run |-> run_id,
                     limit |-> "none", n |-> 0, cap |-> 0, reset_in |-> None]
  /\ lpc' = [lpc EXCEPT ![l] = "respond"]
  /\ cur' = <<"launch", l>>
  /\ UNCHANGED <<cfg, call, answers, subs, now, lock, ltype, deleted, sleepLeft>>

\* main.py: the handler answers (LaunchResponse, 429, deleted, 404); keep
\* tells whether the answer is added to the transcript.
Respond(keep) ==
  /\ resp.kind # "none"
  /\ resp' = NoResp
  /\ answers' = IF keep THEN Append(answers, resp) ELSE answers
  /\ cur' = Idle
  /\ lpc' = IF cur[1] = "launch" THEN [lpc EXCEPT ![cur[2]] = "idle"] ELSE lpc
  /\ ltype' = IF cur[1] = "launch" THEN [ltype EXCEPT ![cur[2]] = "cold"]
              ELSE ltype
  /\ UNCHANGED <<cfg, call, subs, now, lock, limiter, rt, active, queues, qbuf,
                 deleted, tpc, tq, resource, sleepLeft, audit>>

\* A delete request that marks the runtime of the run as failed.
UserDeleteMarksRun(r, backendOk) ==
  /\ cur = Idle
  /\ lock = 0
  /\ SetSvc(DeleteRun(Svc, rt, r, "user request", now, backendOk))
  /\ resp' = [kind |-> "delete", ok |-> DeleteReturns(Svc, r), run |-> r,
              limit |-> "none", n |-> 0, cap |-> 0, reset_in |-> None]
  /\ cur' = <<"delete", r>>
  /\ rt' = Collected(IF r \in active
                     THEN [rt EXCEPT ![r].status = "failed"] ELSE rt,
                     active', tpc, subs)
  /\ qbuf' = CollectedQueues(qbuf, active', tpc, subs)
  /\ UNCHANGED <<cfg, call, answers, subs, now, lock, lpc, ltype, tpc, tq, sleepLeft>>

\* DELETE /api/sandbox/{run_id}: delete(run_id) with the default reason.
UserDelete(r, backendOk) ==
  /\ cur = Idle
  /\ lock = 0
  /\ SetSvc(DeleteRun(Svc, rt, r, "user request", now, backendOk))
  /\ resp' = [kind |-> "delete", ok |-> DeleteReturns(Svc, r), run |-> r,
              limit |-> "none", n |-> 0, cap |-> 0, reset_in |-> None]
  /\ cur' = <<"delete", r>>
  /\ rt' = Collected(rt, active', tpc, subs)
  /\ qbuf' = CollectedQueues(qbuf, active', tpc, subs)
  /\ UNCHANGED <<cfg, call, answers, subs, now, lock, lpc, ltype, tpc, tq, sleepLeft>>


\* ---------------------------------------------------- get_sandbox()
\* SandboxRuntime.to_info(): the SandboxInfo built from the runtime
\* (created_at and the duration computed from it are left out).
ToInfo(r, runtime) ==
  [run_id |-> r, type |-> runtime.sandbox_type, game |-> runtime.game,
   status |-> runtime.status, app_id |-> runtime.app_id,
   ingress_url |-> runtime.ingress_url,
   bootstrap_ms |-> runtime.bootstrap_ms, expires_at |-> runtime.expires_at]

\* GET /api/sandbox/{run_id}: get_sandbox(run_id) returns the to_info() of a
\* registered run, and None (answered 404) otherwise.
GetSandbox(r) ==
  /\ cur = Idle
  /\ resp' = [kind |-> "info", ok |-> r \in active, run |-> r,
              limit |-> "none", n |-> 0, cap |-> 0, reset_in |-> None,
              info |-> IF r \in active THEN Some(ToInfo(r, rt[r])) ELSE None]
  /\ cur' = <<"get", r>>
  /\ UNCHANGED <<cfg, call, answers, subs, now, lock, lpc, ltype, limiter, rt,
                 active, queues, qbuf, deleted, tpc, tq, resource, sleepLeft,
                 audit>>

\* -------------------------------------------------- exec_with_retry()
\* What one call of sandbox.exec gives: a result with success, a result
\* without, or an exception, told apart by its message: "Name or service not
\* known", a message with "Connection" in it, or any other.
ExecResults == {"ok", "bad", "dns", "connection", "other"}

Returns(o) == o \in {"ok", "bad"}

\* The test of the except clause on str(e).
Connectivity(o) == o \in {"dns", "connection"}

\* The values max_retries is called with: the default EXEC_RETRY_ATTEMPTS,
\* every smaller count, and 0.
RetryLimits == 0..EXEC_RETRY_ATTEMPTS

\* The call at the top of its for loop.
NewCall(max_retries) ==
  [pc |-> "loop", max_retries |-> max_retries, attempt |-> 0, tried |-> <<>>,
   slept |-> 0, result |-> "none"]

\* An iteration that sleeps and goes on after every connectivity error, the
\* last attempt included.
RetryAttemptSleepsLast(o) ==
  /\ call.pc = "loop"
  /\ call.attempt < call.max_retries
  /\ call' =
       IF Returns(o)
         THEN [call EXCEPT !.tried = Append(@, o), !.pc = "returned",
                           !.result = o]
       ELSE IF Connectivity(o)
         THEN [call EXCEPT !.tried = Append(@, o),
                           !.slept = @ + EXEC_RETRY_DELAY,
                           !.attempt = @ + 1, !.result = o]
       ELSE [call EXCEPT !.tried = Append(@, o), !.pc = "raised",
                         !.result = o]
  /\ UNCHANGED <<cfg, answers, subs, now, cur, lock, lpc, ltype, resp, limiter,
                 rt, active, queues, qbuf, deleted, tpc, tq, resource,
                 sleepLeft, audit>>

\* One iteration of the for loop: sandbox.exec is called and gives o.  A
\* result is returned; a connectivity error is remembered and, when it is not
\* the last attempt, followed by time.sleep(EXEC_RETRY_DELAY) and the next
\* iteration; any other error, and a connectivity error in the last attempt,
\* is raised again.
RetryAttempt(o) ==
  /\ call.pc = "loop"
  /\ call.attempt < call.max_retries
  /\ call' =
       IF Returns(o)
         THEN [call EXCEPT !.tried = Append(@, o), !.pc = "returned",
                           !.result = o]
       ELSE IF Connectivity(o) /\ call.attempt < call.max_retries - 1
         THEN [call EXCEPT !.tried = Append(@, o),
                           !.slept = @ + EXEC_RETRY_DELAY,
                           !.attempt = @ + 1, !.result = o]
       ELSE [call EXCEPT !.tried = Append(@, o), !.pc = "raised",
                         !.result = o]
  /\ UNCHANGED <<cfg, answers, subs, now, cur, lock, lpc, ltype, resp, limiter,
                 rt, active, queues, qbuf, deleted, tpc, tq, resource,
                 sleepLeft, audit>>

\* The for loop is left without a return or a raise: "raise last_error".
\* With no attempt made last_error is None and the raise is a TypeError.
RetryExhausted ==
  /\ call.pc = "loop"
  /\ call.attempt >= call.max_retries
  /\ call' = [call EXCEPT !.pc = "raised",
                          !.result = IF call.tried = <<>> THEN "type_error"
                                     ELSE call.result]
  /\ UNCHANGED <<cfg, answers, subs, now, cur, lock, lpc, ltype, resp, limiter,
                 rt, active, queues, qbuf, deleted, tpc, tq, resource,
                 sleepLeft, audit>>

\* One call of exec_with_retry, with any max_retries and any outcome of each
\* sandbox.exec.
InitRetry == \E c \in Configs, n \in RetryLimits : InitState(c, NewCall(n))

NextRetry ==
  \/ \E o \in ExecResults : RetryAttempt(o)
  \/ RetryExhausted

SpecRetry == InitRetry /\ [][NextRetry]_vars

\* ------------------------------------------------ _create_sandbox()
\* Durations the task measures with time.time(), in milliseconds.
AcquireMs == {0}
CreateMs == {40}
DeployMs == {7}

\* runtime.add_log of every log event among evs.
WithLogs(runtime, evs) == [runtime EXCEPT !.logs = @ \o LogMessages(evs)]

\* _emit of evs on the task's queue (a no-op when the task found none).
Emitted(r, evs) == IF tq[r] THEN [qbuf EXCEPT ![r] = @ \o evs] ELSE qbuf

OnTask(r) == <<"task", r>>

\* The task starts: it looks its queue up and enters step 1.  A warm run
\* with a started pool awaits the pool; any other run calls Sandbox.create,
\* which blocks the loop.
TaskBegin(r) ==
  /\ cur = Idle
  /\ tpc[r] = "start"
  /\ LET has == r \in queues
         warm == rt[r].sandbox_type = "warm" /\ cfg.pool
         evs == <<LogEvent(IF warm THEN "Acquiring sandbox from warm pool..."
                           ELSE "Creating cold sandbox..."),
                  StatusEvent("creating")>>
     IN  /\ tq' = [tq EXCEPT ![r] = has]
         /\ qbuf' = IF has THEN [qbuf EXCEPT ![r] = @ \o evs] ELSE qbuf
         /\ rt' = [rt EXCEPT ![r] = WithLogs(@, evs)]
         /\ tpc' = [tpc EXCEPT ![r] = IF warm THEN "acquire" ELSE "create"]
         /\ cur' = IF warm THEN Idle ELSE OnTask(r)
  /\ UNCHANGED <<cfg, call, answers, subs, now, lock, lpc, ltype, resp, limiter, active, queues,
                 deleted, resource, sleepLeft, audit>>

\* Lines 444-460: the sandbox is recorded on the runtime and the task
\* sleeps for the DNS propagation delay.
Acquired(r, ms) ==
  LET evs == <<LogEvent("Sandbox ready in"), LogEvent("App ID"),
               LogEvent("Waiting for DNS propagation...")>>
  IN  /\ rt' = [rt EXCEPT ![r] =
                  WithLogs([@ EXCEPT !.bootstrap_ms = Some(ms),
                                     !.sandbox = Some(r),
                                     !.app_id = Some(r),
                                     !.service_token = Some("service-token"),
                                     !.sandbox_base_url = Some(BaseUrl(r))],
                           evs)]
      /\ qbuf' = Emitted(r, evs)
      /\ resource' = [resource EXCEPT ![r] = "held"]
      /\ tpc' = [tpc EXCEPT ![r] = "dns"]
      /\ cur' = Idle

\* A failure handler that leaves the run in place.
FailedKeepsRun(r, backendOk) ==
  LET evs == <<LogEvent("ERROR"), StatusEvent("failed")>>
      rts == [rt EXCEPT ![r] = WithLogs([@ EXCEPT !.status = "failed"], evs)]
  IN  /\ SetSvc(Svc)
      /\ tpc' = [tpc EXCEPT ![r] = "done"]
      /\ rt' = Collected(rts, active', tpc', subs)
      /\ qbuf' = CollectedQueues(Emitted(r, evs), active', tpc', subs)
      /\ cur' = Idle

\* The failure handler emitting the FAILED status event before the error
\* log.
FailedStatusFirst(r, backendOk) ==
  LET evs == <<StatusEvent("failed"), LogEvent("ERROR")>>
      rts == [rt EXCEPT ![r] = WithLogs([@ EXCEPT !.status = "failed"], evs)]
  IN  /\ SetSvc(DeleteRun(Svc, rts, r, "user request", now, backendOk))
      /\ tpc' = [tpc EXCEPT ![r] = "done"]
      /\ rt' = Collected(rts, active', tpc', subs)
      /\ qbuf' = CollectedQueues(Emitted(r, evs), active', tpc', subs)
      /\ cur' = Idle

\* The failure handler: status FAILED, the error log, the FAILED status
\* event, then delete(run_id).
Failed(r, backendOk) ==
  LET evs == <<LogEvent("ERROR"), StatusEvent("failed")>>
      rts == [rt EXCEPT ![r] = WithLogs([@ EXCEPT !.status = "failed"], evs)]
  IN  /\ SetSvc(DeleteRun(Svc, rts, r, "user request", now, backendOk))
      /\ tpc' = [tpc EXCEPT ![r] = "done"]
      /\ rt' = Collected(rts, active', tpc', subs)
      /\ qbuf' = CollectedQueues(Emitted(r, evs), active', tpc', subs)
      /\ cur' = Idle

\* pool_manager.acquire returns a sandbox.
AcquireHit(r, ms) ==
  /\ cur = Idle
  /\ tpc[r] = "acquire"
  /\ Acquired(r, ms)
  /\ UNCHANGED <<cfg, call, answers, subs, now, lock, lpc, ltype, resp, limiter, active, queues,
                 deleted, tq, sleepLeft, audit>>

\* A pool error that fails the run.
AcquireMissFails(r) ==
  /\ cur = Idle
  /\ tpc[r] = "acquire"
  /\ Failed(r, TRUE)
  /\ UNCHANGED <<cfg, call, answers, subs, now, lock, lpc, ltype, resp, tq, sleepLeft>>

\* pool_manager.acquire raises: the task falls back to Sandbox.create.
AcquireMiss(r) ==
  /\ cur = Idle
  /\ tpc[r] = "acquire"
  /\ LET evs == <<LogEvent("Pool empty, falling back to cold start...")>>
     IN  /\ rt' = [rt EXCEPT ![r] = WithLogs(@, evs)]
         /\ qbuf' = Emitted(r, evs)
  /\ tpc' = [tpc EXCEPT ![r] = "create"]
  /\ cur' = OnTask(r)
  /\ UNCHANGED <<cfg, call, answers, subs, now, lock, lpc, ltype, resp, limiter, active, queues,
                 deleted, tq, resource, sleepLeft, audit>>

\* Sandbox.create returns.
CreateOk(r, ms) ==
  /\ cur = OnTask(r)
  /\ tpc[r] = "create"
  /\ Acquired(r, ms)
  /\ UNCHANGED <<cfg, call, answers, subs, now, lock, lpc, ltype, resp, limiter, active, queues,
                 deleted, tq, sleepLeft, audit>>

\* Sandbox.create raises.
CreateFail(r) ==
  /\ cur = OnTask(r)
  /\ tpc[r] = "create"
  /\ Failed(r, TRUE)
  /\ UNCHANGED <<cfg, call, answers, subs, now, lock, lpc, ltype, resp, tq, sleepLeft>>

\* The sleep ends; the task enters _deploy_with_snapshot or
\* _deploy_from_github up to its first exec_with_retry.
DnsWake(r) ==
  /\ cur = Idle
  /\ tpc[r] = "dns"
  /\ LET archive == rt[r].use_snapshot /\ cfg.spaces
         evs == (IF rt[r].use_snapshot
                 THEN <<LogEvent("Restoring from snapshot...")>> ELSE <<>>)
                \o (IF archive THEN <<LogEvent("Downloading snapshot")>>
                    ELSE <<LogEvent("Cloning from repository...")>>)
     IN  /\ rt' = [rt EXCEPT ![r] = WithLogs(@, evs)]
         /\ qbuf' = Emitted(r, evs)
         /\ tpc' = [tpc EXCEPT ![r] = IF archive THEN "wget" ELSE "clone"]
  /\ cur' = OnTask(r)
  /\ UNCHANGED <<cfg, call, answers, subs, now, lock, lpc, ltype, resp, limiter, active, queues,
                 deleted, tq, resource, sleepLeft, audit>>

ExecSteps == {"wget", "tar", "install_snapshot", "clone", "mv", "install_github"}

\* What exec_with_retry gives at each step: a result with success ("ok"),
\* a result without ("bad"), or an exception ("raise").
ExecOutcomes == {"ok", "bad", "raise"}

\* Every command that reports failure taken as fatal.
FatalUnlessOk(step, outcome) == outcome # "ok"

\* A dependency install that reports failure taken as fatal too.
FatalInstall(step, outcome) ==
  \/ outcome = "raise"
  \/ step = "clone" /\ outcome = "bad"
  \/ step \in {"install_snapshot", "install_github"} /\ outcome = "bad"

\* Whether the step's outcome is fatal: an exception anywhere, or a clone
\* that reports failure (raise Exception("Git clone failed")).
Fatal(step, outcome) == outcome = "raise" \/ (step = "clone" /\ outcome = "bad")

Starting == <<LogEvent("Starting game...")>>

\* The log events emitted after a non-fatal exec_with_retry at a step.
AfterExec(step, outcome) ==
  CASE step = "wget" ->
         IF outcome = "ok" THEN <<LogEvent("Extracting snapshot...")>>
         ELSE <<LogEvent("Snapshot not found, falling back to GitHub..."),
                LogEvent("Cloning from repository...")>>
    [] step = "tar" ->
         IF outcome = "ok"
         THEN <<LogEvent("Snapshot restored successfully"),
                LogEvent("Installing dependencies...")>>
         ELSE <<LogEvent("Extract failed"),
                LogEvent("Cloning from repository...")>>
    [] step = "clone" -> <<LogEvent("Repository cloned")>>
    [] step = "mv" -> <<LogEvent("Installing dependencies...")>>
    [] OTHER ->
         (IF outcome = "ok" THEN <<>> ELSE <<LogEvent("Warning")>>)
         \o <<LogEvent("Dependencies installed")>> \o Starting

\* The step that follows a non-fatal exec_with_retry.
NextStep(step, outcome) ==
  CASE step = "wget" -> IF outcome = "ok" THEN "tar" ELSE "clone"
    [] step = "tar" -> IF outcome = "ok" THEN "install_snapshot" ELSE "clone"
    [] step = "clone" -> "mv"
    [] step = "mv" -> "install_github"
    [] OTHER -> "start_game"

\* An exec_with_retry of the deployment returns and the task goes on to the
\* next blocking call; after the install the deployment time is recorded.
ExecReturn(r, outcome, ms) ==
  /\ cur = OnTask(r)
  /\ tpc[r] \in ExecSteps
  /\ ~Fatal(tpc[r], outcome)
  /\ LET evs == AfterExec(tpc[r], outcome)
         nxt == NextStep(tpc[r], outcome)
     IN  /\ rt' = [rt EXCEPT ![r] =
                     WithLogs(IF nxt = "start_game"
                              THEN [@ EXCEPT !.restore_ms = Some(ms)] ELSE @,
                              evs)]
         /\ qbuf' = Emitted(r, evs)
         /\ tpc' = [tpc EXCEPT ![r] = nxt]
  /\ UNCHANGED <<cfg, call, answers, subs, now, cur, lock, lpc, ltype, resp, limiter, active,
                 queues, deleted, tq, resource, sleepLeft, audit>>

\* A failure handler that can also run after the task has ended.
ExecFailLate(r, outcome, backendOk) ==
  /\ cur = OnTask(r) \/ (cur = Idle /\ tpc[r] = "done" /\ r \in active)
  /\ Fatal(tpc[r], outcome)
  /\ Failed(r, backendOk)
  /\ UNCHANGED <<cfg, call, answers, subs, now, lock, lpc, ltype, resp, tq, sleepLeft>>

\* A deployment step or the start of the game raises.
ExecFail(r, outcome, backendOk) ==
  /\ cur = OnTask(r)
  /\ tpc[r] \in ExecSteps \cup {"start_game"}
  /\ Fatal(tpc[r], outcome)
  /\ Failed(r, backendOk)
  /\ UNCHANGED <<cfg, call, answers, subs, now, lock, lpc, ltype, resp, tq, sleepLeft>>

\* A lifetime drawn from a range that ends one minute after the maximum.
LifetimesLoose(c) == c.minLife..(c.maxLife + 1)

\* random.randint(SANDBOX_MIN_LIFETIME_MINUTES, SANDBOX_MAX_LIFETIME_MINUTES)
Lifetimes(c) == c.minLife..c.maxLife

\* The address handed out for a run in SERVICE mode.
\* The address of a sandbox that is not in SERVICE mode: sandbox.get_url().
IngressUrlRaw(r) == BaseUrl(r)

IngressUrl(r) == ProxyUrl(r)

\* exec_background returned: lines 489-521, the run becomes ready.
TaskReady(r, lifetime_minutes) ==
  /\ cur = OnTask(r)
  /\ tpc[r] = "start_game"
  /\ LET bootstrap_ms == rt[r].bootstrap_ms[1]
         restore_ms == rt[r].restore_ms[1]
         total_ms == bootstrap_ms + DNS_PROPAGATION_DELAY * 1000 + restore_ms
         evs == <<StatusEvent("running"),
                  ReadyEvent(IngressUrl(r), bootstrap_ms, Some(restore_ms),
                             total_ms),
                  LogEvent("Game live at"), LogEvent("Total time"),
                  LogEvent("Auto-cleanup in")>>
     IN  /\ tpc' = [tpc EXCEPT ![r] = "done"]
         /\ rt' = Collected(
                    [rt EXCEPT ![r] =
                       WithLogs([@ EXCEPT
                                   !.ingress_url = Some(IngressUrl(r)),
                                   !.expires_at =
                                      Some(now + lifetime_minutes * TicksPerMinute),
                                   !.total_ms = Some(total_ms),
                                   !.status = "running"],
                                evs)],
                    active, tpc', subs)
         /\ qbuf' = CollectedQueues(Emitted(r, evs), active, tpc', subs)
  /\ cur' = Idle
  /\ UNCHANGED <<cfg, call, answers, subs, now, lock, lpc, ltype, resp, limiter, active, queues,
                 deleted, tq, resource, sleepLeft, audit>>

\* ---------------------------------------------------- stream_events()
\* A ready event whose total time is the acquisition time.
SynthReadyShort(runtime) ==
  ReadyEvent(runtime.ingress_url[1], OrZero(runtime.bootstrap_ms),
             runtime.restore_ms, OrZero(runtime.bootstrap_ms))

\* The ready event stream_events builds from the fields of the runtime.
SynthReady(runtime) ==
  ReadyEvent(runtime.ingress_url[1], OrZero(runtime.bootstrap_ms),
             runtime.restore_ms,
             OrElse(runtime.total_ms, OrZero(runtime.bootstrap_ms)))

Yielded(sub, origin, ev) ==
  [sub EXCEPT !.got = Append(@, [origin |-> origin, ev |-> ev])]

\* The generator runs from where it is suspended to its next yield, or to
\* its wait on the empty queue: sub is the subscription, runtime the runtime
\* object it holds, q the content of its queue.  The for loop reads the list
\* runtime.logs as it is at each iteration.
Advance(sub, runtime, q) ==
  IF sub.pc = "replay" /\ sub.runtime /\ sub.i <= Len(runtime.logs)
    THEN [sub |-> Yielded([sub EXCEPT !.i = @ + 1], "replay",
                          LogEvent(runtime.logs[sub.i])),
          q |-> q]
  ELSE IF /\ sub.pc = "replay" /\ sub.runtime
          /\ runtime.status = "running" /\ runtime.ingress_url # None
    THEN [sub |-> Yielded([sub EXCEPT !.pc = "live"], "synth",
                          SynthReady(runtime)),
          q |-> q]
  ELSE IF q # <<>>
    THEN [sub |-> Yielded([sub EXCEPT !.pc = "live"], "queue", Head(q)),
          q |-> Tail(q)]
  ELSE [sub |-> [sub EXCEPT !.pc = "live"], q |-> q]

\* GET /api/stream/{run_id}: stream_events looks the queue and the runtime
\* up and runs to its first yield; without a queue it returns at once.
SubOpen(s, r) ==
  /\ cur = Idle
  /\ subs[s].pc = "closed"
  /\ IF r \notin queues THEN UNCHANGED <<subs, qbuf>>
     ELSE LET live == r \in active
              opened == [NoSub EXCEPT
                           !.pc = "replay", !.run = r, !.runtime = live,
                           !.i = 1,
                           !.atOpen = IF live THEN rt[r].logs ELSE <<>>,
                           !.readyAtOpen = live /\ rt[r].status = "running"]
              a == Advance(opened, rt[r], qbuf[r])
          IN  /\ subs' = [subs EXCEPT ![s] = a.sub]
              /\ qbuf' = [qbuf EXCEPT ![r] = a.q]
  /\ UNCHANGED <<cfg, call, answers, now, cur, lock, lpc, ltype, resp, limiter, rt,
                 active, queues, deleted, tpc, tq, resource, sleepLeft, audit>>

\* The client takes the next event: the generator is resumed from a yield,
\* or its queue.get is completed by an event.
SubNext(s) ==
  /\ cur = Idle
  /\ subs[s].pc \in {"replay", "live"}
  /\ subs[s].pc = "live" => qbuf[subs[s].run] # <<>>
  /\ LET r == subs[s].run
         a == Advance(subs[s], rt[r], qbuf[r])
     IN  /\ subs' = [subs EXCEPT ![s] = a.sub]
         /\ qbuf' = [qbuf EXCEPT ![r] = a.q]
  /\ UNCHANGED <<cfg, call, answers, now, cur, lock, lpc, ltype, resp, limiter, rt,
                 active, queues, deleted, tpc, tq, resource, sleepLeft, audit>>

\* The wait timing out while an event arrives, the event being lost: the
\* keepalive is yielded in its place.
SubKeepaliveLosesEvent(s) ==
  /\ cur = Idle
  /\ subs[s].pc = "live"
  /\ subs[s].keepalives < MaxKeepalives
  /\ subs' = [subs EXCEPT ![s] =
                Yielded([@ EXCEPT !.keepalives = @ + 1], "timeout", KeepAlive)]
  /\ qbuf' = [qbuf EXCEPT ![subs[s].run] = IF @ = <<>> THEN @ ELSE Tail(@)]
  /\ UNCHANGED <<cfg, call, answers, now, cur, lock, lpc, ltype, resp, limiter, rt,
                 active, queues, deleted, tpc, tq, resource, sleepLeft,
                 audit>>

\* The wait on the empty queue times out: a keepalive is yielded.
SubKeepalive(s) ==
  /\ cur = Idle
  /\ subs[s].pc = "live"
  /\ qbuf[subs[s].run] = <<>>
  /\ subs[s].keepalives < MaxKeepalives
  /\ subs' = [subs EXCEPT ![s] =
                Yielded([@ EXCEPT !.keepalives = @ + 1], "timeout", KeepAlive)]
  /\ UNCHANGED <<cfg, call, answers, now, cur, lock, lpc, ltype, resp, limiter, rt,
                 active, queues, qbuf, deleted, tpc, tq, resource, sleepLeft,
                 audit>>

\* The client disconnects: the generator is closed.
SubClose(s) ==
  /\ cur = Idle
  /\ subs[s].pc # "closed"
  /\ subs' = [subs EXCEPT ![s] = NoSub]
  /\ rt' = Collected(rt, active, tpc, subs')
  /\ qbuf' = CollectedQueues(qbuf, active, tpc, subs')
  /\ UNCHANGED <<cfg, call, answers, now, cur, lock, lpc, ltype, resp, limiter,
                 active, queues, deleted, tpc, tq, resource, sleepLeft, audit>>

\* ------------------------------------------------- cleanup_expired()
RECURSIVE Ascending(_)
\* The ids of S in increasing order: the order in which launch inserted them
\* in _active_sandboxes.
Ascending(S) ==
  IF S = {} THEN <<>>
  ELSE LET m == CHOOSE x \in S : \A y \in S : x <= y
       IN  <<m>> \o Ascending(S \ {m})

\* cleanup_expired collecting every live run.
ExpiredAny(act, rts, t) == act

\* cleanup_expired collecting nothing.
ExpiredNone(act, rts, t) == {}

\* The runs cleanup_expired collects at clock t.
Expired(act, rts, t) ==
  {r \in act : rts[r].expires_at # None /\ rts[r].expires_at[1] <= t}

RECURSIVE DeleteAllStopsOnError(_, _, _, _, _)
\* The loop over the collected runs ended by the first backend delete that
\* raises, delete() letting the error through.
DeleteAllStopsOnError(s, rts, ids, t, oks) ==
  IF ids = <<>> THEN s
  ELSE LET r == Head(ids)
           raised == /\ DeleteReturns(s, r)
                     /\ rts[r].sandbox # None
                     /\ r \notin oks
       IN  IF raised
           THEN DeleteRunRaises(s, rts, r, "expired", t, FALSE)
           ELSE DeleteAllStopsOnError(
                  DeleteRun(s, rts, r, "expired", t, TRUE),
                  rts, Tail(ids), t, oks)

RECURSIVE DeleteAll(_, _, _, _, _)
\* The loop over the collected runs; oks are those whose backend delete
\* does not raise.
DeleteAll(s, rts, ids, t, oks) ==
  IF ids = <<>> THEN s
  ELSE DeleteAll(DeleteRun(s, rts, Head(ids), "expired", t, Head(ids) \in oks),
                 rts, Tail(ids), t, oks)

\* One iteration of cleanup_task: a pass of cleanup_expired, then the sleep.
Sweep(oks) ==
  /\ cur = Idle
  /\ lock = 0
  /\ sleepLeft = 0
  /\ oks \subseteq Expired(active, rt, now)
  /\ SetSvc(DeleteAll(Svc, rt, Ascending(Expired(active, rt, now)), now, oks))
  /\ sleepLeft' = 1
  /\ rt' = Collected(rt, active', tpc, subs)
  /\ qbuf' = CollectedQueues(qbuf, active', tpc, subs)
  /\ UNCHANGED <<cfg, call, answers, subs, now, cur, lock, lpc, ltype, resp, tpc, tq>>

\* ------------------------------------------------------------ clock
\* Whether the clock can reach its next tick with the loop as it is: a
\* request handler runs to its answer within a tick; a free loop resumes the
\* cleanup task when its sleep ends, so the clock passes the end of the sleep
\* only while a blocking call of a task holds the loop.
TimePasses(c, sleep) == IF c = Idle THEN sleep > 0 ELSE c[1] = "task"

Tick ==
  /\ now < LastTick
  /\ TimePasses(cur, sleepLeft)
  /\ now' = now + 1
  /\ sleepLeft' = IF sleepLeft > 0 THEN sleepLeft - 1 ELSE 0
  /\ UNCHANGED <<cfg, call, answers, subs, cur, lock, lpc, ltype, resp, limiter, rt, active, queues,
                 qbuf, deleted, tpc, tq, resource, audit>>

\* The orchestrator with every launch deploying from the repository and
\* every command either succeeding or raising.
Next ==
  \/ \E l \in Launchers, st \in SandboxTypes : LaunchCanLaunch(l, st, MaxRuns)
  \/ \E l \in Launchers, g \in Games, us \in {FALSE} :
        LaunchRegister(l, g, us, MaxRuns)
  \/ Respond(FALSE)
  \/ \E r \in RunIds, ok \in BOOLEAN : UserDelete(r, ok)
  \/ \E r \in RunIds : TaskBegin(r)
  \/ \E r \in RunIds, ms \in AcquireMs : AcquireHit(r, ms)
  \/ \E r \in RunIds : AcquireMiss(r)
  \/ \E r \in RunIds, ms \in CreateMs : CreateOk(r, ms)
  \/ \E r \in RunIds : CreateFail(r)
  \/ \E r \in RunIds : DnsWake(r)
  \/ \E r \in RunIds, o \in {"ok"}, ms \in DeployMs : ExecReturn(r, o, ms)
  \/ \E r \in RunIds, o \in {"raise"}, ok \in BOOLEAN : ExecFail(r, o, ok)
  \/ \E r \in RunIds, m \in Lifetimes(cfg) : TaskReady(r, m)
  \/ \E oks \in SUBSET active : Sweep(oks)
  \/ Tick

Spec == Init /\ [][Next]_vars

\* One launch request at a time, every deployment path, and subscriptions.
NextStream ==
  \/ \E st \in SandboxTypes : LaunchCanLaunch(1, st, StreamRuns)
  \/ \E g \in Games, us \in BOOLEAN : LaunchRegister(1, g, us, StreamRuns)
  \/ Respond(FALSE)
  \/ \E r \in RunIds : UserDelete(r, TRUE)
  \/ \E r \in RunIds : TaskBegin(r)
  \/ \E r \in RunIds, ms \in AcquireMs : AcquireHit(r, ms)
  \/ \E r \in RunIds : AcquireMiss(r)
  \/ \E r \in RunIds, ms \in CreateMs : CreateOk(r, ms)
  \/ \E r \in RunIds : CreateFail(r)
  \/ \E r \in RunIds : DnsWake(r)
  \/ \E r \in RunIds, o \in ExecOutcomes, ms \in DeployMs : ExecReturn(r, o, ms)
  \/ \E r \in RunIds, o \in ExecOutcomes : ExecFail(r, o, TRUE)
  \/ \E r \in RunIds, m \in Lifetimes(cfg) : TaskReady(r, m)
  \/ \E s \in Subscribers, r \in RunIds : SubOpen(s, r)
  \/ \E s \in Subscribers : SubNext(s)
  \/ \E s \in Subscribers : SubKeepalive(s)
  \/ \E s \in Subscribers : SubClose(s)

SpecStream == Init /\ [][NextStream]_vars

\* The admission scenario: caps cold 1, total 2, hourly 5; launches A (cold),
\* B (cold), C (warm), D (warm), the deletion of A, the launch of E (cold).
\* The requests are made one after the other, each after the answer to the
\* one before; the tasks of the accepted runs go on in between, every remote
\* call succeeding; the whole scenario plays within one tick of the clock.
ScenarioConfigs ==
  { [cold |-> 1, warm |-> w, total |-> 2, hourly |-> 5,
     minLife |-> 1, maxLife |-> 1, spaces |-> FALSE, pool |-> p] :
       w \in {1, 2}, p \in BOOLEAN }

Script ==
  << [op |-> "launch", type |-> "cold", run |-> 0],
     [op |-> "launch", type |-> "cold", run |-> 0],
     [op |-> "launch", type |-> "warm", run |-> 0],
     [op |-> "launch", type |-> "warm", run |-> 0],
     [op |-> "delete", type |-> "", run |-> 1],
     [op |-> "launch", type |-> "cold", run |-> 0] >>

\* The request the scenario makes next.
Request == Script[Len(answers) + 1]

ScriptLaunch ==
  /\ Len(answers) < Len(Script)
  /\ Request.op = "launch"
  /\ LaunchCanLaunch(1, Request.type, Len(Script))

ScriptDelete ==
  /\ Len(answers) < Len(Script)
  /\ Request.op = "delete"
  /\ UserDelete(Request.run, TRUE)

NextC4 ==
  \/ ScriptLaunch
  \/ ScriptDelete
  \/ \E g \in Games : LaunchRegister(1, g, FALSE, Len(Script))
  \/ Respond(TRUE)
  \/ \E r \in RunIds : TaskBegin(r)
  \/ \E r \in RunIds, ms \in AcquireMs : AcquireHit(r, ms)
  \/ \E r \in RunIds, ms \in CreateMs : CreateOk(r, ms)
  \/ \E r \in RunIds : DnsWake(r)
  \/ \E r \in RunIds, ms \in DeployMs : ExecReturn(r, "ok", ms)
  \/ \E r \in RunIds, m \in Lifetimes(cfg) : TaskReady(r, m)

InitC4 == \E c \in ScenarioConfigs : InitWith(c)

SpecC4 == InitC4 /\ [][NextC4]_vars

\* A step of the task of run r, whatever its remote call gives.
TaskStep(r) ==
  /\ r \in RunIds
  /\ \/ TaskBegin(r)
     \/ \E ms \in AcquireMs : AcquireHit(r, ms)
     \/ AcquireMiss(r)
     \/ \E ms \in CreateMs : CreateOk(r, ms)
     \/ CreateFail(r)
     \/ DnsWake(r)
     \/ \E o \in ExecOutcomes, ms \in DeployMs : ExecReturn(r, o, ms)
     \/ \E o \in ExecOutcomes, ok \in BOOLEAN : ExecFail(r, o, ok)
     \/ \E m \in Lifetimes(cfg) : TaskReady(r, m)

\* A step of a request handler that holds the loop: launch() goes on from
\* the passed check to its return, or the handler answers.
HandlerStep(snapshots) ==
  \/ \E g \in Games, us \in snapshots : LaunchRegister(1, g, us, StreamRuns)
  \/ Respond(FALSE)

\* One launch request at a time and every path of the task.  A handler that
\* holds the loop runs to its answer.  The loop runs its ready coroutines first in,
\* first out, and every remote call returns or raises (each has a timeout):
\* a task that is ready again and again takes its step, however many
\* requests keep arriving.
NextDeploy ==
  \/ \E st \in SandboxTypes : LaunchCanLaunch(1, st, StreamRuns)
  \/ \E g \in Games, us \in BOOLEAN : LaunchRegister(1, g, us, StreamRuns)
  \/ Respond(FALSE)
  \/ \E r \in RunIds, ok \in BOOLEAN : UserDelete(r, ok)
  \/ \E r \in 1..StreamRuns : TaskStep(r)

SpecDeploy ==
  /\ Init /\ [][NextDeploy]_vars
  /\ WF_vars(HandlerStep(BOOLEAN))
  /\ \A r \in 1..StreamRuns : SF_vars(TaskStep(r))

\* A step of the generator of subscription s: the client takes the next
\* event, or the wait on the empty queue times out.
StreamStep(s) == SubNext(s) \/ SubKeepalive(s)

\* One run deployed from the repository, with subscriptions.  The scheduling
\* is that of SpecDeploy; a client keeps reading the stream it has opened,
\* and nothing makes it disconnect.
NextWatch ==
  \/ \E st \in SandboxTypes : LaunchCanLaunch(1, st, StreamRuns)
  \/ \E g \in Games : LaunchRegister(1, g, FALSE, StreamRuns)
  \/ Respond(FALSE)
  \/ \E r \in RunIds : UserDelete(r, TRUE)
  \/ \E r \in 1..StreamRuns : TaskStep(r)
  \/ \E s \in Subscribers, r \in RunIds : SubOpen(s, r)
  \/ \E s \in Subscribers : StreamStep(s)
  \/ \E s \in Subscribers : SubClose(s)

SpecWatch ==
  /\ Init /\ [][NextWatch]_vars
  /\ WF_vars(HandlerStep({FALSE}))
  /\ \A r \in 1..StreamRuns : SF_vars(TaskStep(r))
  /\ \A s \in Subscribers : SF_vars(StreamStep(s))

\* The hourly quota: cap 3 with room in every category, one launch request
\* at a time, made at instants spread over the tick (its first and its last
\* second among them); every remote call succeeds; the sweeper runs.
HourlyConfig ==
  [cold |-> 4, warm |-> 4, total |-> 4, hourly |-> 3,
   minLife |-> 1, maxLife |-> 1, spaces |-> FALSE, pool |-> FALSE]

Instants ==
  {0, 1, TickMillis - MILLIS_PER_SECOND, TickMillis - MILLIS_PER_SECOND + 1,
   TickMillis - 1}

NextHourly ==
  \/ \E ms \in Instants : LaunchCanLaunchAt(1, "cold", cfg.hourly, ms)
  \/ \E g \in Games : LaunchRegister(1, g, FALSE, cfg.hourly)
  \/ Respond(FALSE)
  \/ \E r \in RunIds : TaskBegin(r)
  \/ \E r \in RunIds, ms \in CreateMs : CreateOk(r, ms)
  \/ \E r \in RunIds : DnsWake(r)
  \/ \E r \in RunIds, ms \in DeployMs : ExecReturn(r, "ok", ms)
  \/ \E r \in RunIds, m \in Lifetimes(cfg) : TaskReady(r, m)
  \/ Sweep(Expired(active, rt, now))
  \/ Tick

SpecHourly == InitWith(HourlyConfig) /\ [][NextHourly]_vars

\* One cold run and several subscriptions on it, followed from the launch to
\* the DNS wait of the run's task: the task emits its first events, the
\* subscriptions are opened at any moment and read for as long as the queue
\* gives them events.
NextFanOut ==
  \/ LaunchCanLaunch(1, "cold", StreamRuns)
  \/ \E g \in Games : LaunchRegister(1, g, FALSE, StreamRuns)
  \/ Respond(FALSE)
  \/ \E r \in RunIds : TaskBegin(r)
  \/ \E r \in RunIds, ms \in CreateMs : CreateOk(r, ms)
  \/ \E s \in 1..FanOut, r \in RunIds : SubOpen(s, r)
  \/ \E s \in 1..FanOut : SubNext(s)

SpecFanOut == Init /\ [][NextFanOut]_vars

\* The deleted history: cold launches, one request at a time and one run
\* alive at a time, each deleted by a user's request before its task starts;
\* more runs are deleted than the history holds.
HistoryConfig ==
  [cold |-> 1, warm |-> 1, total |-> 1, hourly |-> HistoryRuns + 1,
   minLife |-> 1, maxLife |-> 1, spaces |-> FALSE, pool |-> FALSE]

NextHistory ==
  \/ LaunchCanLaunch(1, "cold", HistoryRuns)
  \/ \E g \in Games : LaunchRegister(1, g, FALSE, HistoryRuns)
  \/ Respond(FALSE)
  \/ \E r \in active : UserDelete(r, TRUE)

SpecHistory == InitWith(HistoryConfig) /\ [][NextHistory]_vars

\* An hour goes by with no run alive, no task under way and no request in
\* flight: the passes the sweeper makes in that hour find nothing to delete.
HourPasses ==
  /\ cur = Idle
  /\ active = {}
  /\ \A r \in RunIds : tpc[r] = "done"
  /\ \A l \in Launchers : lpc[l] = "idle"
  /\ now + TicksPerHour <= StartTick + GcHours * TicksPerHour
  /\ now' = now + TicksPerHour
  /\ UNCHANGED <<cfg, call, answers, subs, cur, lock, lpc, ltype, resp,
                 limiter, rt, active, queues, qbuf, deleted, tpc, tq,
                 resource, sleepLeft, audit>>

\* The hourly counters over several hours: cold launches, one request at a
\* time, each run ending with the failure of its Sandbox.create, and hours
\* going by between the launches.
NextGc ==
  \/ LaunchCanLaunch(1, "cold", GcRuns)
  \/ \E g \in Games : LaunchRegister(1, g, FALSE, GcRuns)
  \/ Respond(FALSE)
  \/ \E r \in RunIds : TaskBegin(r)
  \/ \E r \in RunIds : CreateFail(r)
  \/ HourPasses

SpecGc == InitWith(HourlyConfig) /\ [][NextGc]_vars

\* The values of the enum SandboxType, each of which launch() takes as its
\* sandbox_type.
LaunchTypes == {"cold", "warm", "snapshot"}

\* Caps that leave room for one run of each sandbox type.
TypesConfig ==
  [cold |-> 1, warm |-> 1, total |-> TypeRuns, hourly |-> TypeRuns + 1,
   minLife |-> 1, maxLife |-> 1, spaces |-> FALSE, pool |-> FALSE]

\* launch() called with each sandbox type, one request at a time; a run's
\* task is followed to the return or the failure of Sandbox.create, and a
\* run is deleted by a user.
NextTypes ==
  \/ \E st \in LaunchTypes : LaunchCanLaunch(1, st, TypeRuns)
  \/ \E g \in Games : LaunchRegister(1, g, FALSE, TypeRuns)
  \/ Respond(FALSE)
  \/ \E r \in RunIds : TaskBegin(r)
  \/ \E r \in RunIds, ms \in CreateMs : CreateOk(r, ms)
  \/ \E r \in RunIds : CreateFail(r)
  \/ \E r \in active : UserDelete(r, TRUE)

SpecTypes == InitWith(TypesConfig) /\ [][NextTypes]_vars

\* Caps for two cold runs side by side, and a lifetime of no minutes: a run
\* is expired from the moment it is ready, so that the pass of the sweeper
\* can come at any point beside the other components.
WritersConfig ==
  [cold |-> WriterRuns, warm |-> 1, total |-> WriterRuns,
   hourly |-> WriterRuns + 1, minLife |-> 0, maxLife |-> 0,
   spaces |-> FALSE, pool |-> FALSE]

\* Every component that holds a reference to a runtime, side by side: the
\* tasks of cold runs deployed from the repository, the delete and the info
\* requests, one pass of the sweeper, and one subscription that its client
\* keeps open.
NextWriters ==
  \/ LaunchCanLaunch(1, "cold", WriterRuns)
  \/ \E g \in Games : LaunchRegister(1, g, FALSE, WriterRuns)
  \/ Respond(FALSE)
  \/ \E r \in RunIds : UserDelete(r, TRUE)
  \/ \E r \in RunIds : GetSandbox(r)
  \/ \E r \in RunIds : TaskBegin(r)
  \/ \E r \in RunIds, ms \in CreateMs : CreateOk(r, ms)
  \/ \E r \in RunIds : CreateFail(r)
  \/ \E r \in RunIds : DnsWake(r)
  \/ \E r \in RunIds, ms \in DeployMs : ExecReturn(r, "ok", ms)
  \/ \E r \in RunIds : ExecFail(r, "raise", TRUE)
  \/ \E r \in RunIds, m \in Lifetimes(cfg) : TaskReady(r, m)
  \/ \E r \in RunIds : SubOpen(1, r)
  \/ SubNext(1)
  \/ SubKeepalive(1)
  \/ Sweep(Expired(active, rt, now))

SpecWriters == InitWith(WritersConfig) /\ [][NextWriters]_vars

\* A pass of the sweeper, whichever backend deletes raise.
SweeperStep == \E oks \in SUBSET active : Sweep(oks)

\* The deployment of SpecDeploy with the clock and the sweeper.  To its
\* scheduling are added: time passes, however many requests arrive (a
\* handler takes the loop for less than a tick, and no tick holds infinitely
\* many requests); cleanup_task, a coroutine of the same loop that catches
\* every exception of a pass and sleeps again, makes its pass each time its
\* sleep has ended and the loop is free, however often handlers and tasks
\* take the loop in between.
NextLife ==
  \/ \E st \in SandboxTypes : LaunchCanLaunch(1, st, StreamRuns)
  \/ \E g \in Games, us \in BOOLEAN : LaunchRegister(1, g, us, StreamRuns)
  \/ Respond(FALSE)
  \/ \E r \in RunIds, ok \in BOOLEAN : UserDelete(r, ok)
  \/ \E r \in 1..StreamRuns : TaskStep(r)
  \/ SweeperStep
  \/ Tick

SpecLife ==
  /\ Init /\ [][NextLife]_vars
  /\ WF_vars(HandlerStep(BOOLEAN))
  /\ \A r \in 1..StreamRuns : SF_vars(TaskStep(r))
  /\ SF_vars(SweeperStep)
  /\ SF_vars(Tick)

\* ------------------------------------------------------- properties
Registered(lim) == lim.active_cold \cup lim.active_warm \cup lim.active_snapshot

HourlyCount == Count(limiter.hourly_counts, HourKey(now))

\* C1: in every reachable state the active count of each category is at most
\* its cap (snapshot runs are held to the warm cap), the sum of the active
\* counts is at most MAX_TOTAL_ACTIVE, and the counter of the current hour is
\* at most MAX_RUNS_PER_HOUR.
C1_CapsHold ==
  /\ Cardinality(limiter.active_cold) <= cfg.cold
  /\ Cardinality(limiter.active_warm) <= cfg.warm
  /\ Cardinality(limiter.active_snapshot) <= cfg.warm
  /\ TotalActive(limiter) <= cfg.total
  /\ HourlyCount <= cfg.hourly

\* A launch is turned down while a category, the total and the hour are all
\* at their caps.
C1_AtCaps ==
  /\ resp.kind = "launch" /\ ~resp.ok
  /\ Cardinality(limiter.active_cold) = cfg.cold
  /\ TotalActive(limiter) = cfg.total
  /\ HourlyCount = cfg.hourly

\* C2: between the can_launch and the register_launch of one launch no other
\* launch checks or registers: the launch that passed the checks still holds
\* the event loop, every other launch request is outside launch(), and the
\* checks it passed still pass on the limiter it registers in.
C2_AdmissionSerialised ==
  \A l \in Launchers :
    lpc[l] = "register" =>
      /\ cur = <<"launch", l>>
      /\ \A k \in Launchers \ {l} : lpc[k] = "idle"
      /\ CanLaunch(limiter, TypeStr(ltype[l]), now, cfg).ok

\* A launch has passed the checks for the last free slot and is about to
\* register.
C2_LastSlot ==
  \E l \in Launchers :
    /\ lpc[l] = "register"
    /\ TotalActive(limiter) = cfg.total - 1
    /\ deleted # <<>>

\* C3: a rejected launch reports the hourly limit whenever the hourly quota
\* is used up, the total limit only when the hourly check passes, and the
\* limit of its own category only when both pass; the reported counts are
\* those of the limiter; a launch goes on to registration only when all three
\* checks pass.
C3_FirstFailingCheck ==
  LET category == IF cur[1] = "launch" THEN TypeStr(ltype[cur[2]]) ELSE "cold"
      count == IF category = "cold" THEN Cardinality(limiter.active_cold)
               ELSE Cardinality(limiter.active_warm)
      cap == IF category = "cold" THEN cfg.cold ELSE cfg.warm
  IN  /\ resp.kind = "launch" /\ ~resp.ok =>
           /\ resp.limit = "hourly" <=> HourlyCount >= cfg.hourly
           /\ resp.limit = "total" <=>
                HourlyCount < cfg.hourly /\ TotalActive(limiter) >= cfg.total
           /\ resp.limit = category <=>
                /\ HourlyCount < cfg.hourly
                /\ TotalActive(limiter) < cfg.total
                /\ count >= cap
           /\ resp.limit \in {"hourly", "total", category}
           /\ resp.limit = "hourly" => resp.n = HourlyCount /\ resp.cap = cfg.hourly
           /\ resp.limit = "total" =>
                resp.n = TotalActive(limiter) /\ resp.cap = cfg.total
           /\ resp.limit = category => resp.n = count /\ resp.cap = cap
      /\ \A l \in Launchers :
           lpc[l] = "register" =>
             /\ HourlyCount < cfg.hourly
             /\ TotalActive(limiter) < cfg.total
             /\ ltype[l] = "cold" => Cardinality(limiter.active_cold) < cfg.cold
             /\ ltype[l] # "cold" => Cardinality(limiter.active_warm) < cfg.warm

\* A launch is rejected for the hourly quota while the total and its own
\* category are at their caps too.
C3_SeveralExceeded ==
  /\ resp.kind = "launch" /\ resp.limit = "hourly"
  /\ TotalActive(limiter) >= cfg.total
  /\ cur[1] = "launch" /\ ltype[cur[2]] = "warm"
  /\ Cardinality(limiter.active_warm) >= cfg.warm

\* C4: in the scenario A is accepted, B is rejected for the cold cap (1/1),
\* C is accepted, D is rejected for the total (2/2), the deletion of A
\* succeeds and leaves the cold count at 0 and the total at 1, and E is
\* accepted.
C4_Scenario ==
  LET n == Len(answers)
      Accepted(i, id) ==
        answers[i].kind = "launch" /\ answers[i].ok /\ answers[i].run = id
      Rejected(i, which, k, cap) ==
        /\ answers[i].kind = "launch" /\ ~answers[i].ok
        /\ answers[i].limit = which
        /\ answers[i].n = k /\ answers[i].cap = cap
  IN  /\ n >= 1 => Accepted(1, 1)
      /\ n >= 2 => Rejected(2, "cold", 1, 1)
      /\ n >= 3 => Accepted(3, 2)
      /\ n >= 4 => Rejected(4, "total", 2, 2)
      /\ n >= 5 => answers[5].kind = "delete" /\ answers[5].ok
      /\ (n = 4 /\ resp.kind = "delete") \/ (n = 5 /\ cur = Idle) =>
           /\ Cardinality(limiter.active_cold) = 0
           /\ TotalActive(limiter) = 1
      /\ n >= 6 => Accepted(6, 3)

\* The scenario has been played to its end.
C4_Played == Len(answers) = Len(Script) /\ 1 \notin active

\* C5: on every reachable limiter, registering an id that is not registered
\* and then unregistering it gives back every category set (hence every
\* active count); unregistering it once more, or unregistering an id that was
\* never registered, changes nothing.
C5_UnregisterRestores ==
  \A id \in (1..(MaxRuns + 1)) \ Registered(limiter) :
    /\ UnregisterSandbox(limiter, id) = limiter
    /\ \A type \in {"cold", "warm", "snapshot"} :
         LET reg == RegisterLaunch(limiter, id, type, now)
             un == UnregisterSandbox(reg, id)
         IN  /\ id \in Registered(reg)
             /\ un.active_cold = limiter.active_cold
             /\ un.active_warm = limiter.active_warm
             /\ un.active_snapshot = limiter.active_snapshot
             /\ UnregisterSandbox(un, id) = un

\* A run was registered and unregistered and is unregistered once more,
\* while another run holds a slot.
C5_Released ==
  /\ resp.kind = "delete" /\ ~resp.ok
  /\ audit[resp.run].unreg = 1
  /\ Registered(limiter) # {}

\* C6: every run starts CREATING and the only changes of a run's status are
\* CREATING to RUNNING and CREATING to FAILED.
C6_StatusForward ==
  [][/\ \A r \in RunIds :
          rt'[r].status # rt[r].status =>
            rt[r].status = "creating" /\ rt'[r].status \in {"running", "failed"}
     /\ \A r \in (1..Len(rt')) \ RunIds : rt'[r].status = "creating"]_vars

\* One run has failed and another, which became ready, has been deleted.
C6_BothEnds ==
  \E r, q \in RunIds :
    rt[r].status = "running" /\ r \notin active /\ rt[q].status = "failed"

\* C7: for every run, the delete calls that returned True number one once the
\* run is out of the registry and none before; the history entries of the run
\* and the releases of its limiter slot number the same; the backend delete
\* of its resource was called at most once; a delete call answers True only
\* as that one call.
C7_DeleteOnce ==
  /\ \A r \in RunIds :
       /\ audit[r].delTrue = IF r \in active THEN 0 ELSE 1
       /\ audit[r].histIns = audit[r].delTrue
       /\ audit[r].unreg = audit[r].delTrue
       /\ audit[r].backendDel <= audit[r].delTrue
       /\ Cardinality({i \in 1..Len(deleted) : deleted[i].run_id = r})
            = audit[r].delTrue
       /\ r \notin active => r \notin Registered(limiter)
  /\ resp.kind = "delete" /\ resp.ok =>
       audit[resp.run].delTrue = 1 /\ deleted[1].run_id = resp.run

\* A user's delete call finds the run already deleted by the failure path of
\* its task and answers False.
C7_SecondDelete ==
  /\ resp.kind = "delete" /\ ~resp.ok
  /\ rt[resp.run].status = "failed"
  /\ audit[resp.run].backendDel = 1

\* C8: a subscription opened on a live run yields the logs the run had when
\* it was opened, in their order, before anything else; if the run was ready
\* when it was opened, what follows the replayed logs is one synthesized
\* ready event carrying the address and the three timings stored on the run;
\* every ready event of the run, synthesized or taken from the queue, carries
\* these same values.
C8_ReplayThenReady ==
  \A s \in Subscribers :
    subs[s].pc # "closed" /\ subs[s].runtime =>
      LET g == subs[s].got
          a == subs[s].atOpen
          r == subs[s].run
          Stored(ev) ==
            /\ ev.ingress_url = rt[r].ingress_url[1]
            /\ ev.bootstrap_ms = rt[r].bootstrap_ms[1]
            /\ ev.restore_ms = rt[r].restore_ms
            /\ ev.total_ms = rt[r].total_ms[1]
          synth == {k \in 1..Len(g) : g[k].origin = "synth"}
      IN  /\ \A k \in 1..Min(Len(g), Len(a)) :
               g[k].origin = "replay" /\ g[k].ev = LogEvent(a[k])
          /\ subs[s].pc = "live" => Len(g) >= Len(a)
          /\ Cardinality(synth) <= 1
          /\ \A k \in synth : \A j \in 1..(k - 1) : g[j].origin = "replay"
          /\ subs[s].readyAtOpen /\ subs[s].pc = "live" => synth # {}
          /\ \A k \in 1..Len(g) : g[k].ev.type = "ready" => Stored(g[k].ev)
          /\ \A k \in 1..Len(qbuf[r]) :
               qbuf[r][k].type = "ready" => Stored(qbuf[r][k])

\* A subscription opened on a ready run has replayed its logs and yielded
\* the synthesized ready event, and then the ready event of the queue.
C8_LateSubscriber ==
  \E s \in Subscribers :
    /\ subs[s].readyAtOpen /\ subs[s].atOpen # <<>>
    /\ \E k, j \in 1..Len(subs[s].got) :
         /\ subs[s].got[k].origin = "synth"
         /\ subs[s].got[j].origin = "queue"
         /\ subs[s].got[j].ev.type = "ready"

\* C9: a run whose status is CREATING has no expiry; cleanup_expired, at any
\* time, collects only runs that have an expiry and are not CREATING; every
\* run deleted as expired had become ready.
C9_CreatingNeverSwept ==
  /\ \A r \in RunIds : rt[r].status = "creating" => rt[r].expires_at = None
  /\ \A t \in StartTick..LastTick :
       \A r \in Expired(active, rt, t) :
         rt[r].expires_at # None /\ rt[r].status # "creating"
  /\ \A i \in 1..Len(deleted) :
       deleted[i].reason = "expired" => rt[deleted[i].run_id].status = "running"

\* A pass has deleted an expired run while another run, still CREATING, stays
\* in the registry.
C9_SweptBesideCreating ==
  /\ \E i \in 1..Len(deleted) : deleted[i].reason = "expired"
  /\ \E r \in active : rt[r].status = "creating"

\* The Sandbox.create of one run holds the loop while another run, ready and
\* expired for more than a sweep interval, is still in the registry.
C10_Overdue ==
  \E r \in active :
    /\ rt[r].expires_at # None
    /\ now > rt[r].expires_at[1] + 1
    /\ \E q \in RunIds \ {r} : cur = OnTask(q) /\ tpc[q] = "create"

\* C10: every expired run is deleted within one sweep interval of its expiry:
\* no run in the registry has an expiry more than one sweep interval (one
\* tick) in the past.
C10_SweptWithinInterval ==
  \A r \in active : rt[r].expires_at # None => now <= rt[r].expires_at[1] + 1

RECURSIVE SumCounts(_, _)
\* The sum of the counters of the hour keys ks.
SumCounts(h, ks) ==
  IF ks = {} THEN 0
  ELSE LET k == CHOOSE x \in ks : TRUE
       IN  h[k] + SumCounts(h, ks \ {k})

\* A fourth launch is rejected in the last second of the hour, after three
\* launches accepted in that hour, and reports 0 seconds until the reset.
C11_ResetZero ==
  /\ resp.kind = "launch" /\ resp.limit = "hourly"
  /\ Len(rt) = 3 /\ HourlyCount = 3
  /\ resp.reset_in = Some(0)

\* C11: with hourly cap 3 every accepted launch adds one to the counter of
\* its hour, so three launches accepted in one hour leave it at 3; a launch
\* made in an hour whose counter is 3 is rejected by the hourly check, and the
\* seconds until the reset it reports are more than 0 and at most 3600.
C11_HourlyReset ==
  /\ SumCounts(limiter.hourly_counts, DOMAIN limiter.hourly_counts) = Len(rt)
  /\ HourlyCount <= 3
  /\ resp.kind = "launch" /\ ~resp.ok =>
       /\ resp.limit = "hourly" /\ resp.n = 3 /\ HourlyCount = 3
       /\ resp.reset_in # None
       /\ 0 < resp.reset_in[1] /\ resp.reset_in[1] <= SECONDS_PER_HOUR
  /\ \A l \in Launchers : lpc[l] = "register" => HourlyCount < 3

RECURSIVE Position(_, _)
\* The index of the first entry m of the list logs, 0 when there is none.
Position(logs, m) ==
  IF logs = <<>> THEN 0
  ELSE IF Head(logs) = m THEN 1
  ELSE LET k == Position(Tail(logs), m) IN IF k = 0 THEN 0 ELSE k + 1

\* The task of run r has ended: the run is ready or has failed.
Ended(r) ==
  IF r \in RunIds THEN rt[r].status \in {"running", "failed"} ELSE FALSE

PoolMissLog == "Pool empty, falling back to cold start..."
SandboxReadyLog == "Sandbox ready in"

\* C12: a warm run with a started pool whose acquisition raised is creating a
\* fresh resource with the fallback entry in its log; the fallback entry
\* comes before the sandbox-ready entry; no step taken from the acquisition
\* marks the run failed; and the run goes on to ready unless a later remote
\* call fails it.
C12_PoolMissFallsBack ==
  /\ [](\A r \in RunIds :
          LET miss == Position(rt[r].logs, PoolMissLog)
              ready == Position(rt[r].logs, SandboxReadyLog)
          IN  /\ tpc[r] = "create" /\ rt[r].sandbox_type = "warm" /\ cfg.pool
                   => miss > 0 /\ ready = 0 /\ rt[r].status = "creating"
              /\ miss > 0 /\ ready > 0 => miss < ready
              /\ miss > 0 /\ rt[r].status = "running" => ready > 0)
  /\ [][\A r \in RunIds :
          tpc[r] = "acquire" =>
            rt'[r].status = "creating" /\ tpc'[r] \in {"acquire", "dns", "create"}]_vars
  /\ \A r \in 1..StreamRuns :
       (IF r \in RunIds
        THEN tpc[r] = "create" /\ Position(rt[r].logs, PoolMissLog) > 0
        ELSE FALSE)
       ~> Ended(r)

\* A warm run whose pool acquisition raised is ready, the fallback entry
\* before the sandbox-ready entry in its log.
C12_ReadyAfterMiss ==
  \E r \in active :
    /\ rt[r].status = "running" /\ rt[r].sandbox_type = "warm"
    /\ Position(rt[r].logs, PoolMissLog) > 0
    /\ Position(rt[r].logs, PoolMissLog)
         < Position(rt[r].logs, SandboxReadyLog)

RestoreSteps == {"wget", "tar", "install_snapshot"}
FetchFailedLog == "Snapshot not found, falling back to GitHub..."

\* C13: for a run deployed with use_snapshot, while the archive fetch or the
\* unpack is running, a command that reports failure can only be followed by
\* the clone of the repository with the run still CREATING, never by the
\* failure of the run; without archive storage the run never enters the
\* restore steps and its deployment starts with the clone; and from the clone
\* path the run goes on to ready unless a remote call fails it.
C13_RestoreFallsBack ==
  /\ [](\A r \in RunIds :
          /\ cur = OnTask(r) /\ tpc[r] \in {"wget", "tar"} =>
                /\ rt[r].use_snapshot /\ cfg.spaces
                /\ ENABLED (/\ \E ms \in DeployMs : ExecReturn(r, "bad", ms)
                            /\ tpc'[r] = "clone"
                            /\ rt'[r].status = "creating")
                /\ ~ENABLED (/\ \E ms \in DeployMs : ExecReturn(r, "bad", ms)
                             /\ tpc'[r] # "clone")
                /\ ~ENABLED (\E ok \in BOOLEAN : ExecFail(r, "bad", ok))
          /\ rt[r].use_snapshot /\ ~cfg.spaces => tpc[r] \notin RestoreSteps
          /\ cur = Idle /\ tpc[r] = "dns" /\ rt[r].use_snapshot /\ ~cfg.spaces
                => ENABLED (DnsWake(r) /\ tpc'[r] = "clone"))
  /\ \A r \in 1..StreamRuns :
       (IF r \in RunIds
        THEN rt[r].use_snapshot /\ tpc[r] \in {"clone", "mv"}
        ELSE FALSE)
       ~> Ended(r)

\* A run deployed with use_snapshot whose archive fetch failed is ready,
\* deployed by the clone.
C13_ReadyAfterFetchFailed ==
  \E r \in active :
    /\ rt[r].use_snapshot /\ rt[r].status = "running"
    /\ Position(rt[r].logs, FetchFailedLog) > 0
    /\ Position(rt[r].logs, "Repository cloned")
         > Position(rt[r].logs, FetchFailedLog)

\* The step ends the task of run r without the run becoming ready.
Fails(r) ==
  tpc[r] # "done" /\ tpc'[r] = "done" /\ rt'[r].status # "running"

\* A subscription holds the runtime object and the queue of run r.
Watched(r) ==
  \E s \in Subscribers : subs[s].pc # "closed" /\ subs[s].run = r

\* C14: a task ends only with its run ready or failed; the step in which a
\* provisioning failure ends the task sets the status FAILED, appends the
\* error entry to the log, puts the error log event and then the FAILED status
\* event on the run's queue, and deletes the run: after it the run is out of
\* the registry, the channel map and the limiter, a live run has got its
\* history entry, and the loop is free again (the handler swallowed the
\* error); a failed run is never in the registry, the channel map or the
\* limiter.
C14_FailureDeletes ==
  /\ [](\A r \in RunIds :
          /\ tpc[r] = "done" => rt[r].status \in {"running", "failed"}
          /\ rt[r].status = "failed" =>
                /\ tpc[r] = "done"
                /\ r \notin active /\ r \notin queues
                /\ r \notin Registered(limiter))
  /\ [][\A r \in RunIds :
          Fails(r) =>
            /\ rt[r].status = "creating" /\ rt'[r].status = "failed"
            /\ r \notin active' /\ r \notin queues'
            /\ r \notin Registered(limiter')
            /\ cur' = Idle
            /\ r \in active =>
                  /\ deleted' = Take(<<deleted'[1]>> \o deleted,
                                     MAX_DELETED_SANDBOXES)
                  /\ deleted'[1].run_id = r
            /\ r \notin active => deleted' = deleted
            /\ Watched(r) =>
                  /\ rt'[r].logs = Append(rt[r].logs, "ERROR")
                  /\ tq[r] => qbuf'[r] = qbuf[r] \o <<LogEvent("ERROR"),
                                                      StatusEvent("failed")>>]_vars

\* A subscription is open on a run that failed while it was streamed: the
\* error entry is the last of its log and the run is gone from the registry.
C14_FailedWhileWatched ==
  \E s \in Subscribers :
    /\ subs[s].pc # "closed" /\ subs[s].runtime
    /\ LET r == subs[s].run
       IN  /\ rt[r].status = "failed"
           /\ rt[r].logs # <<>>
           /\ rt[r].logs[Len(rt[r].logs)] = "ERROR"
           /\ r \notin active
           /\ audit[r].backendDel = 1

\* The step calls the backend delete of run r's resource and the call raises.
BackendDeleteRaises(r) ==
  /\ audit'[r].backendDel = audit[r].backendDel + 1
  /\ resource'[r] # "released"

\* C15: whenever delete() runs on a live run and the backend delete of its
\* resource raises (in a user's request, in the failure path of the task or
\* in a pass of the sweeper), the call still returns True, the run leaves the
\* registry and the channel map, its limiter slot is released and a history
\* entry of the run is recorded; a user's request for it is answered True.
C15_DeleteSwallowsBackendError ==
  /\ [][\A r \in RunIds :
          BackendDeleteRaises(r) =>
            /\ r \in active /\ r \in queues /\ r \in Registered(limiter)
            /\ r \notin active' /\ r \notin queues'
            /\ r \notin Registered(limiter')
            /\ audit'[r].delTrue = audit[r].delTrue + 1
            /\ \E i \in 1..Len(deleted') : deleted'[i].run_id = r
            /\ \A i \in 1..Len(deleted) : deleted[i].run_id # r
            /\ resp'.kind = "delete" => resp'.ok /\ resp'.run = r]_vars
  /\ [](resp.kind = "delete" /\ resp.ok =>
          /\ resp.run \notin active /\ resp.run \notin queues
          /\ resp.run \notin Registered(limiter)
          /\ deleted # <<>> /\ deleted[1].run_id = resp.run)

\* A user's delete is answered True although the backend delete of the run's
\* resource raised: the resource is still held at the backend.
C15_BackendRaised ==
  /\ resp.kind = "delete" /\ resp.ok
  /\ audit[resp.run].backendDel = 1
  /\ resource[resp.run] = "held"
  /\ resp.run \notin active

\* Subscription s is open on a run that has been deleted.
OpenOnDeleted(s) ==
  /\ subs[s].pc # "closed"
  /\ subs[s].run \notin queues

\* A subscription on a run deleted by its failure path has yielded the FAILED
\* status event and, after it, a keepalive: its generator is still waiting
\* on the queue object of the deleted run.
C16_KeepaliveAfterDelete ==
  \E s \in Subscribers :
    /\ OpenOnDeleted(s) /\ subs[s].pc = "live"
    /\ \E k, j \in 1..Len(subs[s].got) :
         /\ k < j
         /\ subs[s].got[k].ev = StatusEvent("failed")
         /\ subs[s].got[j].ev = KeepAlive

\* C16: every subscription that is open on a run when the run is deleted
\* ends: from a state in which a subscription is open on a deleted run, a
\* state is reached in which that subscription is closed.
C16_DeleteEndsStreams ==
  \A s \in Subscribers : OpenOnDeleted(s) ~> (subs[s].pc = "closed")

\* The category set of the limiter that holds the slot of a run of the given
\* sandbox type.
SlotSet(lim, sandbox_type) ==
  IF TypeStr(sandbox_type) = "cold" THEN lim.active_cold ELSE lim.active_warm

\* C17: in every state the ids in the limiter's category sets are the keys of
\* _active_sandboxes, which are the keys of _event_queues; the category sets
\* are pairwise disjoint and each live run is in the set of its own category;
\* a run id is in the limiter from the step that hands it out, and leaves it
\* only in the step in which delete() returns True for it.
C17_OneSlotWhileLive ==
  /\ [](/\ Registered(limiter) = active
        /\ active = queues
        /\ limiter.active_cold \cap limiter.active_warm = {}
        /\ limiter.active_cold \cap limiter.active_snapshot = {}
        /\ limiter.active_warm \cap limiter.active_snapshot = {}
        /\ \A r \in active : r \in SlotSet(limiter, rt[r].sandbox_type))
  /\ [][/\ \A r \in (1..Len(rt')) \ RunIds : r \in Registered(limiter')
        /\ \A r \in RunIds :
             /\ r \notin Registered(limiter) => r \notin Registered(limiter')
             /\ r \in Registered(limiter) /\ r \notin Registered(limiter')
                  => audit'[r].delTrue = audit[r].delTrue + 1]_vars

\* A warm run holds its slot while a cold run, deleted, holds none.
C17_LiveAndDeleted ==
  \E r \in active, q \in RunIds \ active :
    /\ rt[r].sandbox_type = "warm" /\ limiter.active_warm = {r}
    /\ rt[q].sandbox_type = "cold" /\ limiter.active_cold = {}

\* The state a launch is not to touch when it is rejected: the limiter, the
\* registry, the channels, the history, the tasks and the backend resources.
Provisioning ==
  <<limiter, rt, active, queues, qbuf, deleted, tpc, tq, resource, audit>>

RejectedLaunch(a) == a.kind = "launch" /\ ~a.ok

\* C18: the step in which launch() is rejected by the limiter, and the step
\* in which the rejection is answered, leave the limiter's category sets and
\* hourly counters, the registry, the channel map and the queues, the deleted
\* history, the tasks (none is created, none moves) and the backend
\* resources (no call is made) as they were.
C18_RejectionChangesNothing ==
  [][RejectedLaunch(resp) \/ RejectedLaunch(resp') => UNCHANGED Provisioning]_vars

\* A launch is rejected while a run is live, a task is under way and the
\* history holds a deleted run.
C18_RejectedBesideLive ==
  /\ RejectedLaunch(resp)
  /\ \E r \in active : tpc[r] # "done"
  /\ deleted # <<>>

\* C19: while launch() is returning the id of an accepted run, the run is in
\* the registry with status CREATING, without provisioning handle, app id,
\* address, timings, expiry or log entries; its channel exists and is empty;
\* it holds the limiter slot of its category; its task has not started and no
\* call to the backend has been made for it.
C19_ReturnsBeforeRemoteWork ==
  resp.kind = "launch" /\ resp.ok =>
    LET r == resp.run
    IN  /\ r \in active
        /\ rt[r].status = "creating"
        /\ rt[r].sandbox = None /\ rt[r].app_id = None
        /\ rt[r].ingress_url = None /\ rt[r].sandbox_base_url = None
        /\ rt[r].expires_at = None
        /\ rt[r].bootstrap_ms = None /\ rt[r].restore_ms = None
        /\ rt[r].total_ms = None
        /\ rt[r].logs = <<>>
        /\ r \in queues /\ qbuf[r] = <<>>
        /\ r \in SlotSet(limiter, rt[r].sandbox_type)
        /\ tpc[r] = "start"
        /\ resource[r] = "none"
        /\ audit[r].backendDel = 0

\* launch() returns the id of a second run while the task of the first holds
\* a backend resource.
C19_ReturnedBesideProvisioned ==
  /\ resp.kind = "launch" /\ resp.ok
  /\ \E q \in active \ {resp.run} : resource[q] = "held"

\* The positions at which a task is inside a synchronous remote call.
RemoteCalls == {"create"} \cup ExecSteps \cup {"start_game"}

\* What the loop has to do besides the task of run q can be done now: a
\* launch request is admitted or rejected, a task that is ready to start
\* starts, a task whose DNS wait is over wakes up, and the sweeper, its sleep
\* over, makes its pass.
OthersCanStep(q) ==
  /\ \A l \in Launchers :
       lpc[l] = "idle" =>
         ENABLED (\E st \in SandboxTypes : LaunchCanLaunch(l, st, Len(rt) + 1))
  /\ \A r \in RunIds \ {q} :
       /\ tpc[r] = "start" => ENABLED TaskBegin(r)
       /\ tpc[r] = "dns" => ENABLED DnsWake(r)
  /\ sleepLeft = 0 => ENABLED (\E oks \in SUBSET active : Sweep(oks))

\* The task of one run is inside Sandbox.create while a launch request can
\* be made, the task of another run waits to go on and the sweeper's sleep
\* is over.
C20_Stalled ==
  \E q \in RunIds :
    /\ cur = OnTask(q) /\ tpc[q] = "create"
    /\ \E r \in RunIds \ {q} : tpc[r] = "dns"
    /\ sleepLeft = 0
    /\ \E l \in Launchers : lpc[l] = "idle"

\* C20: while the task of a run is inside a remote call, the admission of
\* launches, the tasks of the other runs and the sweeper can take their
\* steps.
C20_RemoteCallsDoNotStall ==
  \A q \in RunIds :
    cur = OnTask(q) /\ tpc[q] \in RemoteCalls => OthersCanStep(q)

\* A subscription is open on a run that was deleted before its resource was
\* acquired: the task went on, the run is marked RUNNING and the subscription
\* has taken the ready event from the queue.
C21_ReadyAfterDelete ==
  \E s \in Subscribers :
    /\ subs[s].pc # "closed"
    /\ LET r == subs[s].run
       IN  /\ r \notin active
           /\ \E i \in 1..Len(deleted) :
                deleted[i].run_id = r /\ deleted[i].bootstrap_ms = None
           /\ rt[r].status = "running"
           /\ \E k \in 1..Len(subs[s].got) :
                /\ subs[s].got[k].origin = "queue"
                /\ subs[s].got[k].ev.type = "ready"

\* C21: once a run is out of the registry, its task puts no further event on
\* the run's queue (every later emit is a no-op, so no subscriber receives
\* one) and does not move the run to RUNNING.
C21_DeletedRunIsGone ==
  [][\A r \in RunIds :
       r \notin active =>
         /\ rt'[r].status = "running" => rt[r].status = "running"
         /\ Len(qbuf'[r]) <= Len(qbuf[r])]_vars

\* A warm run was deleted while its task was waiting in pool_manager.acquire:
\* the history entry was written before a resource was recorded, no backend
\* delete was called, and the task has since ended holding the resource the
\* pool handed it.
C22_LeakedInFlight ==
  \E r \in RunIds \ active :
    /\ tq[r] /\ tpc[r] = "done"
    /\ rt[r].sandbox_type = "warm" /\ cfg.pool
    /\ \E i \in 1..Len(deleted) :
         deleted[i].run_id = r /\ deleted[i].bootstrap_ms = None
    /\ audit[r].backendDel = 0
    /\ resource[r] = "held"

\* C22: once a run is out of the registry and its task has ended, the
\* resource handed to the task is not held at the backend any more: it has
\* been released by a backend delete.
C22_ResourcesReleased ==
  \A r \in RunIds : r \notin active /\ tpc[r] = "done" => resource[r] # "held"

RECURSIVE FromQueue(_)
\* The events among those a subscription has yielded that it took from the
\* run's queue, in the order it took them.
FromQueue(got) ==
  IF got = <<>> THEN <<>>
  ELSE (IF Head(got).origin = "queue" THEN <<Head(got).ev>> ELSE <<>>)
       \o FromQueue(Tail(got))

\* The sequence a is an initial part of the sequence b.
Prefix(a, b) == Len(a) <= Len(b) /\ SubSeq(b, 1, Len(a)) = a

\* Subscriptions s and u are open on the same live run and both were opened
\* before the run's task emitted anything.
BothAttached(s, u) ==
  /\ s # u
  /\ subs[s].pc # "closed" /\ subs[u].pc # "closed"
  /\ subs[s].run = subs[u].run
  /\ subs[s].runtime /\ subs[u].runtime
  /\ subs[s].atOpen = <<>> /\ subs[u].atOpen = <<>>
  /\ ~subs[s].readyAtOpen /\ ~subs[u].readyAtOpen

\* Two subscriptions were attached to a run before its task emitted anything;
\* of the first two events the task put on the queue, each subscription has
\* taken one, and neither has the event the other took.
C23_SplitStream ==
  \E s, u \in SubIds :
    /\ BothAttached(s, u)
    /\ FromQueue(subs[s].got) # <<>> /\ FromQueue(subs[u].got) # <<>>
    /\ Head(FromQueue(subs[s].got)) = LogEvent("Creating cold sandbox...")
    /\ Head(FromQueue(subs[u].got)) = StatusEvent("creating")

\* C23: when two subscriptions are attached to one run, the events each has
\* received of those emitted after both attached are the same sequence, in
\* emission order, up to where the slower of the two has read: what one
\* subscription consumes stays in the sequence of the other.
C23_SubscribersIndependent ==
  \A s, u \in SubIds :
    BothAttached(s, u) =>
      \/ Prefix(FromQueue(subs[s].got), FromQueue(subs[u].got))
      \/ Prefix(FromQueue(subs[u].got), FromQueue(subs[s].got))

\* The limits get_deleted_sandboxes is called with: GET /api/history takes
\* limit from 1 to 20 (default 10); 0 and limits beyond the capacity are
\* taken too.
HistoryLimits == 0..(MAX_DELETED_SANDBOXES + 2)

\* The history is full and the entry of the run deleted first has been
\* dropped from it.
C24_OldestDropped ==
  /\ Len(deleted) = MAX_DELETED_SANDBOXES
  /\ Len(rt) > MAX_DELETED_SANDBOXES
  /\ 1 \notin active
  /\ \A i \in 1..Len(deleted) : deleted[i].run_id # 1

\* C24: the deleted history never holds more than MAX_DELETED_SANDBOXES (20)
\* entries; every deletion puts the entry of the deleted run first and moves
\* the others one place back in their order, the entry that would be the
\* 21st being dropped; get_deleted_sandboxes(limit) returns the first
\* min(limit, length) entries of the list, in its order.
C24_HistoryBounded ==
  /\ [](/\ Len(deleted) <= MAX_DELETED_SANDBOXES
        /\ \A limit \in HistoryLimits :
             LET res == GetDeletedSandboxes(deleted, limit)
             IN  /\ Len(res) = Min(limit, Len(deleted))
                 /\ \A i \in 1..Len(res) : res[i] = deleted[i])
  /\ [][deleted' # deleted =>
          /\ deleted'[1].run_id \in active \ active'
          /\ Len(deleted') = Min(Len(deleted) + 1, MAX_DELETED_SANDBOXES)
          /\ \A i \in 2..Len(deleted') : deleted'[i] = deleted[i - 1]]_vars

\* With the default of five attempts, the call has made all five, slept four
\* times between them and raised the connectivity error of the fifth.
C25_GaveUp ==
  /\ call.pc = "raised"
  /\ call.max_retries = EXEC_RETRY_ATTEMPTS
  /\ Len(call.tried) = EXEC_RETRY_ATTEMPTS
  /\ call.slept = (EXEC_RETRY_ATTEMPTS - 1) * EXEC_RETRY_DELAY
  /\ call.result = "connection"

\* C25: exec_with_retry calls sandbox.exec at most max_retries times; every
\* call but the last one made ended in a connectivity error, and before each
\* further call the delay was slept once; a call that gives a result ends
\* exec_with_retry with that result; an error that is not a connectivity
\* error ends it with that error; after a connectivity error it goes on
\* while attempts remain and, at the attempt number max_retries, raises that
\* last error.
C25_BoundedRetry ==
  LET n == Len(call.tried)
      last == call.tried[n]
  IN  call.pc # "none" =>
        /\ n <= call.max_retries
        /\ \A i \in 1..(n - 1) : call.tried[i] \in {"dns", "connection"}
        /\ call.pc = "loop" =>
             /\ \A i \in 1..n : call.tried[i] \in {"dns", "connection"}
             /\ call.slept = n * EXEC_RETRY_DELAY
             /\ n < call.max_retries \/ call.max_retries = 0
        /\ call.pc # "loop" /\ n > 0 =>
             /\ call.slept = (n - 1) * EXEC_RETRY_DELAY
             /\ call.result = last
             /\ call.pc = "returned" <=> last \in {"ok", "bad"}
             /\ call.pc = "raised" <=> last \in {"dns", "connection", "other"}
             /\ last \in {"dns", "connection"} => n = call.max_retries
        /\ n > 0 /\ last \in {"ok", "bad", "other"} => call.pc # "loop"

\* The hourly counters after one more launch is counted in the hour of
\* clock t.
Counted(h, t) ==
  [k \in DOMAIN h \cup {HourKey(t)} |->
     IF k = HourKey(t) THEN Count(h, k) + 1 ELSE h[k]]

\* A launch is rejected for the hourly quota while no run is alive: of the
\* two runs admitted in this hour one has failed and the other was deleted.
C26_QuotaSpentByDeadRuns ==
  /\ resp.kind = "launch" /\ resp.limit = "hourly" /\ resp.n = 2
  /\ active = {}
  /\ \E r, q \in RunIds : rt[r].status = "failed" /\ rt[q].status # "failed"

\* C26: the step in which a launch is accepted adds exactly one to the
\* counter of the current hour and leaves the other counters alone; no other
\* step (a rejected launch, a delete, the failure of a run, a sweep pass, an
\* answer) changes any hourly counter; so the counters add up to the number
\* of launches accepted, whatever became of the runs.
C26_HourlyCountedOnce ==
  /\ [](SumCounts(limiter.hourly_counts, DOMAIN limiter.hourly_counts)
          = Len(rt))
  /\ [][IF Len(rt') = Len(rt) + 1
        THEN limiter'.hourly_counts = Counted(limiter.hourly_counts, now)
        ELSE limiter'.hourly_counts = limiter.hourly_counts]_vars

\* A launch has just been registered three hours after the first one: the
\* counter of the first launch's hour is gone, the counter of the hour two
\* hours back is still there.
C27_OldHourCollected ==
  /\ resp.kind = "launch" /\ resp.ok
  /\ HourKey(now) \in DOMAIN limiter.hourly_counts
  /\ HourKey(now) - GC_HOURS \in DOMAIN limiter.hourly_counts
  /\ SumCounts(limiter.hourly_counts, DOMAIN limiter.hourly_counts) < Len(rt)

\* C27: after the step in which a launch is registered the hourly-counter
\* map has no key of an hour more than two hours before the current hour;
\* the counters of the two hours before the current one that were in the map
\* are still in it with their values; and the counter of the current hour
\* is there, one more than before.
C27_GcKeepsTwoHours ==
  [][Len(rt') = Len(rt) + 1 =>
       LET H == HourKey(now)
           h == limiter.hourly_counts
           h2 == limiter'.hourly_counts
       IN  /\ \A k \in DOMAIN h2 : k >= H - GC_HOURS
           /\ \A k \in DOMAIN h :
                k >= H - GC_HOURS /\ k # H => k \in DOMAIN h2 /\ h2[k] = h[k]
           /\ H \in DOMAIN h2 /\ h2[H] = Count(h, H) + 1]_vars

\* A run has just become ready with the longest lifetime of a range that
\* has more than one, while another run is still being created.
C28_LongestLifetime ==
  /\ cfg.minLife < cfg.maxLife
  /\ \E r \in active :
       /\ rt[r].status = "running"
       /\ rt[r].expires_at = Some(now + cfg.maxLife * TicksPerMinute)
       /\ rt[r].ingress_url = Some(ProxyUrl(r))
  /\ \E q \in active : rt[q].status = "creating"

\* C28: a run whose runtime object is still held by the registry, its task
\* or a stream is RUNNING only with its expiry and its address set; the step
\* that makes it RUNNING sets the expiry to the time of that step plus a
\* whole number of minutes between SANDBOX_MIN_LIFETIME_MINUTES and
\* SANDBOX_MAX_LIFETIME_MINUTES; an expiry that is set is never changed.
C28_ExpiryWithinRange ==
  /\ [](\A r \in RunIds :
          ~Unreachable(r, active, tpc, subs) /\ rt[r].status = "running" =>
            rt[r].expires_at # None /\ rt[r].ingress_url # None)
  /\ [][\A r \in RunIds :
          ~Unreachable(r, active', tpc', subs') =>
            /\ rt[r].status # "running" /\ rt'[r].status = "running" =>
                 \E m \in cfg.minLife..cfg.maxLife :
                   rt'[r].expires_at = Some(now + m * TicksPerMinute)
            /\ rt[r].status = "running" => rt'[r].status = "running"
            /\ rt[r].expires_at # None =>
                 rt'[r].expires_at = rt[r].expires_at]_vars

InstallSteps == {"install_snapshot", "install_github"}

\* What a dependency install that reports failure adds to the run's log.
InstallWarned == <<"Warning", "Dependencies installed", "Starting game...">>

\* A run restored from the archive is ready although its dependency install
\* reported failure: the warning is in its log, after the restore and before
\* the start of the game.
C29_ReadyAfterWarning ==
  \E r \in active :
    /\ rt[r].status = "running" /\ rt[r].use_snapshot
    /\ Position(rt[r].logs, "Snapshot restored successfully") > 0
    /\ Position(rt[r].logs, "Snapshot restored successfully")
         < Position(rt[r].logs, "Warning")
    /\ Position(rt[r].logs, "Warning")
         < Position(rt[r].logs, "Starting game...")

\* C29: while the dependency install of a run is running, on the snapshot
\* path or on the clone path, a command that reports failure is followed by
\* the start of the game with the run still CREATING and the registry as it
\* was, the warning entry being added to the log before the entries of a
\* completed deployment; it is followed by nothing else, and never by the
\* failure of the run.
C29_InstallFailureWarns ==
  \A r \in RunIds :
    cur = OnTask(r) /\ tpc[r] \in InstallSteps =>
      /\ tpc[r] = "install_snapshot" => rt[r].use_snapshot /\ cfg.spaces
      /\ ENABLED (/\ \E ms \in DeployMs : ExecReturn(r, "bad", ms)
                  /\ tpc'[r] = "start_game"
                  /\ rt'[r].status = "creating"
                  /\ rt'[r].logs = rt[r].logs \o InstallWarned
                  /\ active' = active)
      /\ ~ENABLED (/\ \E ms \in DeployMs : ExecReturn(r, "bad", ms)
                   /\ \/ tpc'[r] # "start_game"
                      \/ rt'[r].status # "creating"
                      \/ rt'[r].logs # rt[r].logs \o InstallWarned)
      /\ ~ENABLED (\E ok \in BOOLEAN : ExecFail(r, "bad", ok))

\* ---------------------------------------------------------------- C30
\* The orders in which a pass can hold the ids it collected, ids of runs
\* that are no longer registered included.
SweepLists ==
  {ids \in UNION {[1..n -> RunIds] : n \in 0..MaxRuns} :
     \A i, j \in DOMAIN ids : i # j => ids[i] # ids[j]}

\* The runs named in a list.
Listed(ids) == {ids[i] : i \in DOMAIN ids}

\* The history entries written for run r with the sweeper's reason.
ExpiredEntries(d, r) ==
  {i \in DOMAIN d : d[i].run_id = r /\ d[i].reason = "expired"}

\* Witness: at the first tick at which a run can have expired, two runs are
\* out of the registry with an "expired" history entry each, the backend
\* delete of the first having been called and having raised (its resource is
\* still held) and that of the second, deleted after it in the same pass,
\* having released its resource.
C30_SweptPastFailure ==
  /\ now = StartTick + cfg.minLife * TicksPerMinute
  /\ sleepLeft = 1
  /\ active = {}
  /\ Len(deleted) = 2
  /\ deleted[1].run_id = 2 /\ deleted[1].reason = "expired"
  /\ deleted[2].run_id = 1 /\ deleted[2].reason = "expired"
  /\ audit[1].backendDel = 1 /\ resource[1] = "held"
  /\ audit[2].backendDel = 1 /\ resource[2] = "released"

\* C30: a pass of cleanup_expired deletes every run it collected, whichever
\* of the backend deletes raise: each collected run leaves
\* _active_sandboxes, _event_queues and the limiter's set of live runs and
\* gets one history entry with the sweeper's reason, and delete() returned
\* True for it. The loop over a list does the same for the registered runs
\* of the list when other ids of the list name runs that were deleted
\* before: delete() returns False for those and changes nothing.
C30_SweepDeletesAll ==
  [][/\ (sleepLeft = 0 /\ sleepLeft' = 1) =>
          \A r \in Expired(active, rt, now) :
            /\ r \notin active'
            /\ r \notin queues'
            /\ r \notin limiter'.active_cold \cup limiter'.active_warm
                          \cup limiter'.active_snapshot
            /\ audit'[r].delTrue = audit[r].delTrue + 1
            /\ audit'[r].histIns = audit[r].histIns + 1
            /\ Cardinality(ExpiredEntries(deleted', r))
                 = Cardinality(ExpiredEntries(deleted, r)) + 1
     /\ \A ids \in SweepLists, oks \in SUBSET active :
          LET after == DeleteAll(Svc, rt, ids, now, oks)
          IN  /\ after.active = active \ Listed(ids)
              /\ after.queues = queues \ Listed(ids)
              /\ \A r \in RunIds :
                   after.audit[r].histIns =
                     audit[r].histIns
                       + (IF r \in Listed(ids) \cap active THEN 1 ELSE 0)
    ]_vars

\* ---------------------------------------------------------------- C31
\* Witness: a subscription on a live run has yielded a keepalive while the
\* task waited and, after it, the events the task emitted next, taken from
\* the queue one after the other down to the RUNNING status event and the
\* ready event.
C31_EventsAfterKeepalive ==
  \E s \in Subscribers :
    /\ subs[s].pc = "live" /\ subs[s].run \in active
    /\ \E k, j \in 1..Len(subs[s].got) :
         /\ subs[s].got[k].ev = KeepAlive
         /\ k < j /\ j < Len(subs[s].got)
         /\ \A i \in (k + 1)..(j + 1) : subs[s].got[i].origin = "queue"
         /\ subs[s].got[j].ev = StatusEvent("running")
         /\ subs[s].got[j + 1].ev.type = "ready"

\* No subscription other than s moves in the step: none is opened, resumed
\* or closed, so that s alone can have taken from its queue.
OthersStill(s) == \A u \in SubIds \ {s} : subs'[u] = subs[u]

\* C31: a step in which a subscription yields a keepalive is taken with the
\* subscription waiting on the empty queue, and changes nothing but the
\* events yielded: the subscription is open on the same run and still
\* waiting, and the queue is as it was.  Over any step that leaves a
\* subscription open and is not the step of another subscription (which
\* takes events of the same queue for itself), the events it has taken from
\* the queue followed by those still queued are continued, none dropped or
\* reordered.
C31_TimeoutKeepsWaiting ==
  [][\A s \in Subscribers :
       LET r == subs[s].run
       IN  /\ subs[s].pc # "closed"
              /\ subs'[s].keepalives = subs[s].keepalives + 1 =>
                /\ subs[s].pc = "live"
                /\ qbuf[r] = <<>>
                /\ subs'[s] =
                     [subs[s] EXCEPT
                        !.keepalives = @ + 1,
                        !.got = Append(@, [origin |-> "timeout",
                                           ev |-> KeepAlive])]
                /\ subs'[s].pc = "live"
                /\ qbuf' = qbuf
           /\ subs[s].pc # "closed" /\ subs'[s].pc # "closed"
              /\ OthersStill(s) =>
                /\ subs'[s].run = r
                /\ Prefix(FromQueue(subs[s].got) \o qbuf[r],
                          FromQueue(subs'[s].got) \o qbuf'[r])
    ]_vars

\* ---------------------------------------------------------------- C32
\* Subscription s was opened on its run before the run's task emitted
\* anything, so that it is handed every event of the run's queue.
FromStart(s) ==
  /\ subs[s].pc # "closed"
  /\ subs[s].runtime
  /\ subs[s].atOpen = <<>> /\ ~subs[s].readyAtOpen
  /\ tpc[subs[s].run] # "start" => tq[subs[s].run]

\* The events of the queue of its run as subscription s is handed them:
\* those it has taken, then those still queued.
Relayed(s) == FromQueue(subs[s].got) \o qbuf[subs[s].run]

\* The number of events the task of run r has put on its queue so far: one
\* per recorded log line, the CREATING status event of its start, the
\* RUNNING status event and the ready event of a run that became ready, the
\* FAILED status event of a run that failed.
EmittedCount(r) ==
  IF ~tq[r] THEN 0
  ELSE Len(rt[r].logs) + (IF tpc[r] # "start" THEN 1 ELSE 0)
         + (IF rt[r].status = "running" THEN 2 ELSE 0)
         + (IF rt[r].status = "failed" THEN 1 ELSE 0)

\* Subscription s is the one subscriber of its run: every event the task
\* put on the queue is among those s has taken or is still queued, none was
\* taken by another subscription.
OneSubscriber(s) == Len(Relayed(s)) = EmittedCount(subs[s].run)

\* Witness: a subscription attached from the start to a run that failed has
\* taken every event of the queue, the last two being the error log and the
\* FAILED status event.
C32_FailedRelayed ==
  \E s \in Subscribers :
    /\ FromStart(s)
    /\ OneSubscriber(s)
    /\ qbuf[subs[s].run] = <<>>
    /\ LET e == FromQueue(subs[s].got)
       IN  /\ Len(e) > 3
           /\ e[Len(e)] = StatusEvent("failed")
           /\ e[Len(e) - 1] = LogEvent("ERROR")
           /\ e[1].type = "log"

\* C32: among the events one subscription takes from the queue of its run,
\* the RUNNING status event precedes the ready event, the error log precedes
\* the FAILED status event, and nothing follows the FAILED status event.
\* For the one subscriber of a run attached from the start, the log events
\* relayed are the run's recorded log lines, in the order add_log recorded
\* them; a ready event comes right after the RUNNING status event; a FAILED
\* status event comes right after the error log.
C32_OrderedRelay ==
  \A s \in Subscribers :
    /\ subs[s].pc # "closed" =>
         LET e == Relayed(s)
         IN  \A i \in 1..Len(e) :
               /\ e[i] = StatusEvent("failed") => i = Len(e)
               /\ \A j \in 1..Len(e) :
                    /\ e[i] = StatusEvent("running") /\ e[j].type = "ready"
                         => i < j
                    /\ e[i] = LogEvent("ERROR") /\ e[j] = StatusEvent("failed")
                         => i < j
    /\ FromStart(s) /\ OneSubscriber(s) =>
         LET e == Relayed(s)
             r == subs[s].run
         IN  /\ LogMessages(e) = rt[r].logs
             /\ \A i \in 1..Len(e) :
                  /\ e[i].type = "ready" =>
                       i > 1 /\ e[i - 1] = StatusEvent("running")
                  /\ e[i] = StatusEvent("running") =>
                       i < Len(e) /\ e[i + 1].type = "ready"
                  /\ e[i] = StatusEvent("failed") =>
                       /\ i = Len(e)
                       /\ i > 1 /\ e[i - 1] = LogEvent("ERROR")
                  /\ e[i] = LogEvent("ERROR") =>
                       i < Len(e) /\ e[i + 1] = StatusEvent("failed")

\* ---------------------------------------------------------------- C33
\* The live runs of the given sandbox types.
LiveOfTypes(types) == {r \in active : rt[r].sandbox_type \in types}

\* Witness: a warm launch is turned down at the warm cap while the run that
\* holds the slot is a snapshot run.
C33_WarmRejectedBySnapshot ==
  /\ resp.kind = "launch" /\ ~resp.ok /\ resp.limit = "warm"
  /\ ltype[1] = "warm"
  /\ resp.n = cfg.warm
  /\ LiveOfTypes({"snapshot"}) # {}
  /\ LiveOfTypes({"warm"}) = {}

\* C33: the live snapshot runs and the live warm runs are together at most
\* MAX_CONCURRENT_WARM, and so are the ids the limiter holds in its warm and
\* snapshot sets.
C33_SnapshotSharesWarmCap ==
  /\ Cardinality(LiveOfTypes({"warm", "snapshot"})) <= cfg.warm
  /\ Cardinality(limiter.active_warm \cup limiter.active_snapshot) <= cfg.warm

\* ---------------------------------------------------------------- C34
\* Witness: beside a ready, registered run whose logs a subscription has
\* replayed, another run has been deleted by a user while its task was
\* under way, its runtime being as the task left it.
C34_DeletedBesideReady ==
  \E r, q \in RunIds :
    /\ r \in active /\ rt[r].status = "running"
    /\ q \notin active /\ tpc[q] \notin {"start", "done"}
    /\ rt[q].status = "creating" /\ rt[q].logs # <<>>
    /\ audit[q].delTrue = 1
    /\ subs[1].pc = "live" /\ subs[1].run = r /\ subs[1].atOpen # <<>>

\* C34: a step that changes a field of a runtime object still referenced
\* after it is a step of the task of that run, taken when the task is
\* resumed or while it holds the loop; every other step, the steps of the
\* tasks of other runs among them, leaves the runtime as it is.  The type,
\* the game and the deployment choice of a run are changed by no step.
C34_SingleWriter ==
  [][\A r \in RunIds :
       /\ rt'[r] # rt[r]
       /\ ~Unreachable(r, active', tpc', subs')
       => /\ tpc'[r] # tpc[r]
          /\ cur \in {Idle, OnTask(r)}
          /\ \A q \in RunIds \ {r} : rt'[q] = rt[q] \/ Unreachable(q, active', tpc', subs')
          /\ rt'[r].sandbox_type = rt[r].sandbox_type
          /\ rt'[r].game = rt[r].game
          /\ rt'[r].use_snapshot = rt[r].use_snapshot
    ]_vars

\* ---------------------------------------------------------------- C35
\* sandbox._service_token, as _create_sandbox stores it on the runtime.
ServiceToken == "service-token"

\* What a caller can read in an event.
Shown(ev) == {ev.type, ev.message, ev.status, ev.ingress_url[1]}

\* The events of run r that are queued or have been yielded to a subscriber.
EventsOf(r) ==
  {qbuf[r][i] : i \in DOMAIN qbuf[r]}
    \cup UNION {{subs[s].got[i].ev : i \in DOMAIN subs[s].got} :
                  s \in {u \in SubIds : subs[u].pc # "closed" /\ subs[u].run = r}}

\* Witness: the info request on a ready run is answered with the proxy path
\* of the run while the runtime holds the sandbox's token and base URL, and
\* the subscriber of the run has been yielded its ready event.
C35_InfoOfReadyRun ==
  /\ resp.kind = "info" /\ resp.ok
  /\ resp.info[1].status = "running"
  /\ resp.info[1].ingress_url = Some(ProxyUrl(resp.run))
  /\ rt[resp.run].service_token = Some(ServiceToken)
  /\ rt[resp.run].sandbox_base_url = Some(BaseUrl(resp.run))
  /\ \E ev \in EventsOf(resp.run) : ev.type = "ready"
  /\ subs[1].pc = "live" /\ subs[1].run = resp.run

\* C35: the address stored on a registered run that is ready is the proxy
\* path of the run, and so is the address of every ready event of the run,
\* queued or yielded; no event shows the sandbox's base URL or its service
\* token; the SandboxInfo returned for a run has the proxy path or no
\* address, and neither a field for the token or the base URL nor their
\* values.
C35_AddressIsProxyPath ==
  /\ \A r \in active :
       rt[r].status = "running" =>
         /\ rt[r].ingress_url = Some(ProxyUrl(r))
         /\ rt[r].ingress_url # rt[r].sandbox_base_url
  /\ \A r \in RunIds : \A ev \in EventsOf(r) :
       /\ ev.type = "ready" => ev.ingress_url = ProxyUrl(r)
       /\ ev.ingress_url # BaseUrl(r)
       /\ ServiceToken \notin Shown(ev)
       /\ BaseUrl(r)[1] \notin Shown(ev)
  /\ resp.kind = "info" /\ resp.ok =>
       LET info == resp.info[1]
       IN  /\ info.ingress_url \in {None, Some(ProxyUrl(resp.run))}
           /\ DOMAIN info \cap {"service_token", "sandbox_base_url"} = {}
           /\ {info.type, info.game, info.status}
                \cap {ServiceToken, BaseUrl(resp.run)[1]} = {}
           /\ info.status = "running" => info.ingress_url # None

\* ---------------------------------------------------------------- C36
\* cleanup_expired's result for a pass over the list ids: the length of the
\* list it collected, whatever delete() returned for each id.
CleanupReturns(ids) == Len(ids)

\* The runs a pass over the list ids removes from _active_sandboxes.
RemovedBy(ids) == active \ DeleteAll(Svc, rt, ids, now, Listed(ids)).active

HoldsSlot(r) == r \in Registered(limiter)

\* Run r is ready with an expiry that lies after the last tick of the clock
\* that is followed.
BeyondClock(r) ==
  IF r \in active
  THEN /\ rt[r].status = "running"
       /\ rt[r].expires_at # None
       /\ rt[r].expires_at[1] > LastTick
  ELSE FALSE

\* Every run that has failed is out of the registry and of the limiter.
FailedAreDeleted ==
  \A r \in RunIds :
    rt[r].status = "failed" => r \notin active /\ ~HoldsSlot(r)

\* Witness: a run that became ready was deleted by the sweeper and by no one
\* else, and its slot is free again.
C37_SweptAfterReady ==
  \E r \in RunIds :
    /\ rt[r].status = "running"
    /\ r \notin active /\ ~HoldsSlot(r)
    /\ audit[r].delTrue = 1
    /\ Len(deleted) = 1 /\ deleted[1].run_id = r
    /\ deleted[1].reason = "expired"

\* C37: a run that holds a slot of the limiter eventually is ready or has
\* failed, deleted in between or not; a run that has failed is deleted, in the
\* step that marks it failed; and a slot that is held is eventually
\* released, by the failure path, by a delete request or, for a run that is
\* ready, by the sweeper once the expiry has passed (a run whose expiry lies
\* after the last tick followed is left registered).
C37_SlotsReleased ==
  /\ []FailedAreDeleted
  /\ \A r \in 1..StreamRuns :
       /\ HoldsSlot(r) ~> Ended(r)
       /\ HoldsSlot(r) ~> (~HoldsSlot(r) \/ BeyondClock(r))

\* ---------------------------------------------------------------- C38
\* The set the limiter's status reports under the given category.
CategorySet(lim, type) ==
  CASE type = "cold" -> lim.active_cold
    [] type = "warm" -> lim.active_warm
    [] type = "snapshot" -> lim.active_snapshot

\* A snapshot run is live and the limiter holds it in its warm set: the
\* limiter reports one warm run and no snapshot run, the registry one
\* snapshot run and no warm run.
C38_SnapshotCountedAsWarm ==
  \E r \in active :
    /\ rt[r].sandbox_type = "snapshot"
    /\ r \in limiter.active_warm
    /\ Cardinality(CategorySet(limiter, "warm")) = 1
    /\ Cardinality(CategorySet(limiter, "snapshot")) = 0
    /\ Cardinality(LiveOfTypes({"warm"})) = 0
    /\ Cardinality(LiveOfTypes({"snapshot"})) = 1

\* C38: for each sandbox type launch takes, the limiter's active count of
\* the category is the number of live runs of that type.
C38_CountedUnderOwnCategory ==
  \A type \in LaunchTypes :
    Cardinality(CategorySet(limiter, type)) = Cardinality(LiveOfTypes({type}))

\* ---------------------------------------------------------------- C39
\* How many times x occurs in the sequence seq.
Occurrences(seq, x) == Cardinality({i \in DOMAIN seq : seq[i] = x})

RECURSIVE Events(_)
\* The events among those yielded, keepalives left out.
Events(got) ==
  IF got = <<>> THEN <<>>
  ELSE (IF Head(got).origin = "timeout" THEN <<>> ELSE <<Head(got).ev>>)
       \o Events(Tail(got))

\* The events subscription s has yielded to its client.
Delivered(s) == Events(subs[s].got)

\* A subscription attached to a ready run has been yielded the run's first
\* log line from the buffer and again from the queue, and the synthesized
\* ready event and then the ready event of the queue; the line is recorded
\* once.
C39_DeliveredTwice ==
  \E s \in Subscribers :
    /\ subs[s].pc = "live" /\ subs[s].runtime /\ subs[s].readyAtOpen
    /\ Occurrences(rt[subs[s].run].logs, "Creating cold sandbox...") = 1
    /\ \E k, j, a, b \in 1..Len(subs[s].got) :
         /\ k < a /\ a < j /\ j < b
         /\ subs[s].got[k] =
              [origin |-> "replay", ev |-> LogEvent("Creating cold sandbox...")]
         /\ subs[s].got[a].origin = "synth"
         /\ subs[s].got[j] =
              [origin |-> "queue", ev |-> LogEvent("Creating cold sandbox...")]
         /\ subs[s].got[b].origin = "queue"
         /\ subs[s].got[b].ev = subs[s].got[a].ev

\* C39: a subscription is yielded each log line at most as many times as
\* the run's log records it, and at most one ready event.
C39_NothingDeliveredTwice ==
  \A s \in Subscribers :
    subs[s].pc # "closed" /\ subs[s].runtime =>
      LET d == Delivered(s)
          lines == LogMessages(d)
      IN  /\ \A i \in DOMAIN lines :
               Occurrences(lines, lines[i])
                 <= Occurrences(rt[subs[s].run].logs, lines[i])
          /\ Cardinality({i \in DOMAIN d : d[i].type = "ready"}) <= 1

====
